---- MODULE Spec2Model ----
(***************************************************************************)
(* Vortexje panel-method solver (Solver::add_body, initialize_wakes,       *)
(* solve, propagate, update_wakes and the helpers they call) as a state    *)
(* machine.  Dense Eigen vectors and std::vectors are functions over       *)
(* 0..n-1, as the code indexes them.  Reals are integers (exact), the      *)
(* pressure coefficient is an exact fraction with IEEE inf/NaN on a zero   *)
(* divisor.  Geometry (Surface, LiftingSurface, Wake, Body) is not part of *)
(* the solver source: it is a small fixed catalogue of meshes.             *)
(***************************************************************************)
EXTENDS Integers, Sequences, FiniteSets, TLC

\* ------------------------------------------------------------------ bounds

\* Cap on the number of node layers a wake may reach (a convecting
\* update_wakes and initialize_wakes are not called when they would take a
\* wake past it).
MaxLayers == 4

\* ------------------------------------------- settings of the Parameters namespace

\* Parameters::max_boundary_layer_iterations
max_boundary_layer_iterations == 0
\* Parameters::boundary_layer_iteration_tolerance
boundary_layer_iteration_tolerance == 1
\* Parameters::static_wake_length
static_wake_length == 3
\* Parameters::wake_emission_distance_factor
wake_emission_distance_factor == 1

\* ------------------------------------------------------------ vector algebra

Zero3 == <<0, 0, 0>>

VAdd(a, b) == <<a[1] + b[1], a[2] + b[2], a[3] + b[3]>>

VSub(a, b) == <<a[1] - b[1], a[2] - b[2], a[3] - b[3]>>

VScale(k, a) == <<k * a[1], k * a[2], k * a[3]>>

Dot(a, b) == a[1] * b[1] + a[2] * b[2] + a[3] * b[3]

SquaredNorm(a) == Dot(a, a)

Abs(x) == IF x < 0 THEN -x ELSE x

Sign(x) == IF x < 0 THEN -1 ELSE IF x > 0 THEN 1 ELSE 0

RECURSIVE Gcd(_, _)
Gcd(a, b) == IF b = 0 THEN a ELSE Gcd(b, a % b)

\* The double n/d: a fraction in lowest terms with positive denominator; a zero
\* divisor gives +inf (n = 1), -inf (n = -1) or NaN (n = 0), as IEEE division does.
Frac(n, d) ==
    IF d = 0 THEN [n |-> Sign(n), d |-> 0]
    ELSE LET g == Gcd(Abs(n), Abs(d))
         IN  [n |-> (Sign(d) * n) \div g, d |-> Abs(d) \div g]

\* A vector as it is once assigned to a member: every entry holds its value
\* (a function expression is otherwise evaluated again at every use).
Stored(f) == f @@ << >>

\* Eigen's setZero on a vector resized to n entries.
ZeroVector(n) == [i \in 0..(n - 1) |-> 0]

ZeroMatrix3(n) == [i \in 0..(n - 1) |-> Zero3]

ZeroFracVector(n) == [i \in 0..(n - 1) |-> Frac(0, 1)]

Size(f) == Cardinality(DOMAIN f)

\* std::vector push_back of the n entries g[0..n-1] onto f.
PushBackAll(f, g) ==
    [i \in 0..(Size(f) + Size(g) - 1) |-> IF i < Size(f) THEN f[i] ELSE g[i - Size(f)]]

\* --------------------------------------------------------- mesh catalogue

BodyIds == {"B1", "B2"}

\* Body::non_lifting_surfaces and Body::lifting_surfaces, in their order.
NonLiftingSurfaces(b) == IF b = "B1" THEN <<"S1">> ELSE <<"S2">>

LiftingSurfaces(b) == IF b = "B1" THEN <<"L1">> ELSE <<"L2">>

SurfaceIds == {"S1", "L1", "S2", "L2"}

LiftingSurfaceIds == {"L1", "L2"}

\* The wake of a lifting surface (LiftingSurfaceData::wake) has its own id.
WakeId(l) == IF l = "L1" THEN "W1" ELSE "W2"

\* Surface::n_panels
NPanels(s) == IF s = "L1" THEN 4 ELSE IF s = "L2" THEN 2 ELSE 1

\* Surface::n_nodes
NNodes(s) == IF s = "L1" THEN 6 ELSE 4

\* LiftingSurface::n_spanwise_panels, n_spanwise_nodes
NSpanwisePanels(l) == NPanels(l) \div 2

NSpanwiseNodes(l) == NSpanwisePanels(l) + 1

\* LiftingSurface::trailing_edge_upper_panel, trailing_edge_lower_panel: the
\* panels are numbered around the section, lower side first.
TrailingEdgeUpperPanel(l, k) == NPanels(l) - 1 - k

TrailingEdgeLowerPanel(l, k) == k

\* lifting_surface.nodes[trailing_edge_node(i)]: position of trailing-edge node i.
TrailingEdgeNodePosition(l, i) == <<4, i, 0>>

\* LiftingSurface::trailing_edge_bisector
TrailingEdgeBisector(l, i) == <<1, 0, 0>>

\* Surface::panel_normal: lower-side panels point down, upper-side panels up.
PanelNormal(s, p) == IF 2 * p < NPanels(s) THEN <<0, 0, -1>> ELSE <<0, 0, 1>>

\* Surface::panel_surface_area
PanelSurfaceArea(s, p) == p + 1

\* Surface::panel_collocation_point
PanelCollocationPoint(s, p) == <<p + 1, 0, IF 2 * p < NPanels(s) THEN -1 ELSE 1>>

\* Surface::scalar_field_gradient(coefficients, offset, panel): the tangential
\* difference of the scalar field between the panel and its neighbour.
ScalarFieldGradient(s, coeffs, offset, p) ==
    <<coeffs[offset + p] - coeffs[offset + ((p + 1) % NPanels(s))], 0, 0>>

\* Wake::vortex_ring_unit_velocity(surface, panel, k)
WakeVortexRingUnitVelocity(l, s, p, k) == <<0, 0, k + 1>>

\* Surface::vortex_ring_unit_velocity(x, i), Surface::source_unit_velocity(x, i)
VortexRingUnitVelocity(s, x, i) == <<0, 1, 0>>

SourceUnitVelocity(s, x, i) == <<0, 0, 1>>

\* Wake::vortex_ring_unit_velocity(x, i) of a wake with the given nodes: it
\* depends on where x lies and on where the corners of panel i lie.
WakeVortexRingUnitVelocityAt(nodes, x, i) ==
    <<0, 1, (x[1] + x[2] + x[3] + nodes[i].v[1] + nodes[i].v[2] + nodes[i].v[3]) % 2>>

\* Surface::source_and_doublet_influence(x, i, ...), Wake::doublet_influence(x, i)
SourceInfluence(s, x, i) == 1

DoubletInfluence(s, x, i) == i + 1

WakeDoubletInfluence(l, x, i) == 1

\* Body::velocity
BodyVelocity(b) == IF b = "B1" THEN Zero3 ELSE <<2, 2, 1>>

\* Body::panel_kinematic_velocity, Body::node_kinematic_velocity (pure translation)
PanelKinematicVelocity(b, s, p) == BodyVelocity(b)

NodeKinematicVelocity(b, l, node) == BodyVelocity(b)

\* typeid(d->boundary_layer) != typeid(DummyBoundaryLayer)
HasBoundaryLayer(s) == s = "S2"

\* The settings of the Parameters namespace a run is made with, and the dt the
\* driver hands to every call of the run.
RunChoices ==
    {[convect_wake |-> TRUE,  unsteady_bernoulli |-> FALSE, marcov_surface_velocity |-> FALSE, dt |-> 1],
     [convect_wake |-> TRUE,  unsteady_bernoulli |-> TRUE,  marcov_surface_velocity |-> FALSE, dt |-> 0],
     [convect_wake |-> FALSE, unsteady_bernoulli |-> TRUE,  marcov_surface_velocity |-> FALSE, dt |-> 1],
     [convect_wake |-> FALSE, unsteady_bernoulli |-> FALSE, marcov_surface_velocity |-> FALSE, dt |-> 1],
     [convect_wake |-> FALSE, unsteady_bernoulli |-> FALSE, marcov_surface_velocity |-> TRUE,  dt |-> 1]}

\* Values set_freestream_velocity is called with.
FreestreamChoices == {<<0, 0, 2>>}

\* ------------------------------------------------------------------- state

VARIABLES
    bodies,                               \* Solver::bodies
    non_wake_surfaces,                    \* Solver::non_wake_surfaces
    surface_id_to_body,                   \* Solver::surface_id_to_body
    n_non_wake_panels,                    \* Solver::n_non_wake_panels
    doublet_coefficients,
    source_coefficients,
    surface_velocity_potentials,
    previous_surface_velocity_potentials,
    pressure_coefficients,
    surface_velocities,
    freestream_velocity,
    fluid_density,
    wake_nodes,                           \* wake.nodes of each lifting surface
    wake_doublet_coefficients,            \* wake.doublet_coefficients of each lifting surface
    blowing,                              \* state of each non-dummy boundary layer
    convect_wake,                         \* Parameters::convect_wake
    unsteady_bernoulli,                   \* Parameters::unsteady_bernoulli
    marcov_surface_velocity,              \* Parameters::marcov_surface_velocity
    time_step,                            \* the dt of the run
    last_call,                            \* the call that produced this state, and what it returned
    ub                                    \* an out-of-range wake index was used

solver_vars ==
    <<bodies, non_wake_surfaces, surface_id_to_body, n_non_wake_panels,
      doublet_coefficients, source_coefficients, surface_velocity_potentials,
      previous_surface_velocity_potentials, pressure_coefficients,
      surface_velocities, freestream_velocity, fluid_density>>

wake_vars == <<wake_nodes, wake_doublet_coefficients>>

param_vars == <<convect_wake, unsteady_bernoulli, marcov_surface_velocity, time_step>>

vars == <<solver_vars, wake_vars, blowing, param_vars, last_call, ub>>

\* What last_call records about a call; solve fills the solve-only fields, a
\* post-processing call the subject (body or surface id), the panel and the
\* returned value (its components, as fractions).
Call(op, ret) ==
    [op |-> op, ret |-> ret, trace |-> << >>,
     exit |-> "none", info |-> "none", linear_solves |-> 0, recalculations |-> 0,
     rhs |-> << >>, solution |-> << >>, converged |-> FALSE, pre |-> << >>,
     passes |-> << >>, subject |-> "none", panel |-> 0, value |-> << >>,
     writes |-> << >>]

\* The calls a driver makes to read or write out results once the stepping is
\* over.
PostProcessingOps ==
    {"set_fluid_density", "force", "moment", "velocity", "velocity_potential",
     "surface_velocity_potential", "surface_velocity", "pressure_coefficient", "log"}

\* No out-of-range index was used and no solve returned false (the step is
\* discarded and the run ends there).
Alive == ~ub /\ last_call.ret # "false"

\* The driver goes on stepping the solver: the run is alive and the driver has
\* not started to read results.
Running == Alive /\ last_call.op \notin PostProcessingOps

RECURSIVE SumPanels(_)
SumPanels(surfaces) ==
    IF surfaces = << >> THEN 0
    ELSE NPanels(Head(surfaces)) + SumPanels(Tail(surfaces))

\* The linear scan every lookup does: the sum of n_panels of the surfaces
\* registered before position k (1-based) of non_wake_surfaces.
OffsetAt(surfaces, k) == SumPanels(SubSeq(surfaces, 1, k - 1))

\* Solver::Solver
Init ==
    /\ bodies = << >>
    /\ non_wake_surfaces = << >>
    /\ surface_id_to_body = << >>
    /\ n_non_wake_panels = 0
    /\ doublet_coefficients = ZeroVector(0)
    /\ source_coefficients = ZeroVector(0)
    /\ surface_velocity_potentials = ZeroVector(0)
    /\ previous_surface_velocity_potentials = ZeroVector(0)
    /\ pressure_coefficients = ZeroFracVector(0)
    /\ surface_velocities = ZeroMatrix3(0)
    /\ freestream_velocity = Zero3
    /\ fluid_density = 0
    /\ wake_nodes = [l \in LiftingSurfaceIds |-> << >>]
    /\ wake_doublet_coefficients = [l \in LiftingSurfaceIds |-> << >>]
    /\ blowing = [s \in {x \in SurfaceIds : HasBoundaryLayer(x)} |-> ZeroVector(NPanels(s))]
    /\ \E c \in RunChoices :
        /\ convect_wake = c.convect_wake
        /\ unsteady_bernoulli = c.unsteady_bernoulli
        /\ marcov_surface_velocity = c.marcov_surface_velocity
        /\ time_step = c.dt
    /\ last_call = Call("Solver", "void")
    /\ ub = FALSE

\* ------------------------------------------------------------- add_body

\* add_body counting the panels of the lifting surfaces only.
AddBodyPanelCountLiftingOnly(n, b) == n + SumPanels(LiftingSurfaces(b))

\* n_non_wake_panels after the two registration loops of add_body.
AddBodyPanelCount(n, b) ==
    n + SumPanels(NonLiftingSurfaces(b)) + SumPanels(LiftingSurfaces(b))

\* non_wake_surfaces after the two registration loops of add_body.
AddBodySurfaces(surfaces, b) ==
    surfaces \o NonLiftingSurfaces(b) \o LiftingSurfaces(b)

\* surface_id_to_body after add_body: every surface id and every wake id of the body.
AddBodyIdMap(map, b) ==
    LET own == {NonLiftingSurfaces(b)[k] : k \in DOMAIN NonLiftingSurfaces(b)}
               \cup {LiftingSurfaces(b)[k] : k \in DOMAIN LiftingSurfaces(b)}
               \cup {WakeId(LiftingSurfaces(b)[k]) : k \in DOMAIN LiftingSurfaces(b)}
    IN  [id \in DOMAIN map \cup own |-> IF id \in own THEN b ELSE map[id]]

\* resize without setZero: the entries that were there stay.
AddBodyResizeOnly(old, n, zero) ==
    [i \in 0..(n - 1) |-> IF i \in DOMAIN old THEN old[i] ELSE zero]

\* One resize + setZero pair of add_body (zero: the zero of the entry type).
AddBodyCoefficients(old, n, zero) == [i \in 0..(n - 1) |-> zero]

InBodies(b) == \E k \in DOMAIN bodies : bodies[k] = b

AddBody(b) ==
    /\ Running
    /\ ~InBodies(b)
    /\ bodies' = Append(bodies, b)
    /\ non_wake_surfaces' = AddBodySurfaces(non_wake_surfaces, b)
    /\ surface_id_to_body' = AddBodyIdMap(surface_id_to_body, b)
    /\ n_non_wake_panels' = AddBodyPanelCount(n_non_wake_panels, b)
    /\ doublet_coefficients' = AddBodyCoefficients(doublet_coefficients, n_non_wake_panels', 0)
    /\ source_coefficients' = AddBodyCoefficients(source_coefficients, n_non_wake_panels', 0)
    /\ surface_velocity_potentials' =
            AddBodyCoefficients(surface_velocity_potentials, n_non_wake_panels', 0)
    /\ surface_velocities' = AddBodyCoefficients(surface_velocities, n_non_wake_panels', Zero3)
    /\ pressure_coefficients' =
            AddBodyCoefficients(pressure_coefficients, n_non_wake_panels', Frac(0, 1))
    /\ previous_surface_velocity_potentials' =
            AddBodyCoefficients(previous_surface_velocity_potentials, n_non_wake_panels', 0)
    /\ last_call' = Call("add_body", "void")
    /\ UNCHANGED <<freestream_velocity, fluid_density, wake_vars, blowing, param_vars, ub>>

\* Solver::set_freestream_velocity, called while the driver sets the solver up,
\* before the first solve or update_wakes (a call with the value already
\* stored assigns nothing new and is not a step of the model).
SetFreestreamVelocity(value) ==
    /\ Running
    /\ last_call.op \in {"Solver", "add_body", "initialize_wakes"}
    /\ value # freestream_velocity
    /\ freestream_velocity' = value
    /\ last_call' = Call("set_freestream_velocity", "void")
    /\ UNCHANGED <<bodies, non_wake_surfaces, surface_id_to_body, n_non_wake_panels,
                   doublet_coefficients, source_coefficients, surface_velocity_potentials,
                   previous_surface_velocity_potentials, pressure_coefficients,
                   surface_velocities, fluid_density, wake_vars, blowing, param_vars, ub>>

\* ---------------------------------------------------------- wake lifecycle

\* A wake node position: an integer vector, or NaN in every component (0/0 in
\* the static-wake direction).
Pos(v) == [nan |-> FALSE, v |-> v]

NaN3 == [nan |-> TRUE, v |-> Zero3]

\* Vector3d arithmetic on positions that may be NaN.
PAdd(a, b) == IF a.nan \/ b.nan THEN NaN3 ELSE Pos(VAdd(a.v, b.v))

PSub(a, b) == IF a.nan \/ b.nan THEN NaN3 ELSE Pos(VSub(a.v, b.v))

\* Vector3d::norm of an integer vector whose norm is an integer.
Norm(a) == CHOOSE n \in 0..SquaredNorm(a) : n * n = SquaredNorm(a)

\* static_wake_length * body_apparent_velocity / body_apparent_velocity.norm()
StaticWakeOffset(v) ==
    IF SquaredNorm(v) = 0 THEN NaN3
    ELSE Pos(<<(static_wake_length * v[1]) \div Norm(v),
               (static_wake_length * v[2]) \div Norm(v),
               (static_wake_length * v[3]) \div Norm(v)>>)

\* The lifting surfaces of the registered bodies, in the order every
\* "for bodies / for lifting_surfaces" loop visits them, each with its body.
RECURSIVE LiftingOfBody(_, _)
LiftingOfBody(b, ls) ==
    IF ls = << >> THEN << >>
    ELSE <<[body |-> b, ls |-> Head(ls)]>> \o LiftingOfBody(b, Tail(ls))

RECURSIVE RegisteredLifting(_)
RegisteredLifting(bs) ==
    IF bs = << >> THEN << >>
    ELSE LiftingOfBody(Head(bs), LiftingSurfaces(Head(bs))) \o RegisteredLifting(Tail(bs))

RegisteredLiftingIds == {RegisteredLifting(bodies)[k].ls : k \in DOMAIN RegisteredLifting(bodies)}

BodyOfLifting(l) == CHOOSE b \in BodyIds : \E k \in DOMAIN LiftingSurfaces(b) : LiftingSurfaces(b)[k] = l

\* wake.n_panels(), wake.n_nodes()
WakeNPanels(wdc, l) == Size(wdc[l])

WakeNNodes(nodes, l) == Size(nodes[l])

\* Wake::add_layer: a layer of nodes at the trailing edge and, unless it is the
\* first layer, a strip of panels between it and the layer before.
AddLayerNodes(l, nodes) ==
    PushBackAll(nodes, [i \in 0..(NSpanwiseNodes(l) - 1) |-> Pos(TrailingEdgeNodePosition(l, i))])

AddLayerCoefficients(l, nodes, dc) ==
    IF Size(nodes) < NSpanwiseNodes(l) THEN dc
    ELSE PushBackAll(dc, ZeroVector(NSpanwisePanels(l)))

\* Parameters::wake_emission_follow_bisector
wake_emission_follow_bisector == FALSE

\* Solver::compute_trailing_edge_vortex_displacement
ComputeTrailingEdgeVortexDisplacement(b, l, index, dt) ==
    LET apparent_velocity == VSub(NodeKinematicVelocity(b, l, index), freestream_velocity)
        wake_velocity == IF wake_emission_follow_bisector
                         THEN VScale(Norm(apparent_velocity), TrailingEdgeBisector(l, index))
                         ELSE VScale(-1, apparent_velocity)
    IN  VScale(wake_emission_distance_factor * dt, wake_velocity)

\* initialize_wakes without its second add_layer.
InitializeWakeNodesOneLayer(b, l, nodes, dt) == AddLayerNodes(l, nodes)

\* The body of initialize_wakes for one lifting surface.
InitializeWakeNodes(b, l, nodes, dt) ==
    LET first == AddLayerNodes(l, nodes)
        moved == [i \in DOMAIN first |->
                    IF i < NSpanwiseNodes(l)
                    THEN IF convect_wake
                         THEN PAdd(first[i], Pos(ComputeTrailingEdgeVortexDisplacement(b, l, i, dt)))
                         ELSE PSub(first[i], StaticWakeOffset(VSub(BodyVelocity(b), freestream_velocity)))
                    ELSE first[i]]
    IN  AddLayerNodes(l, moved)

\* The coefficients after the first add_layer alone, which adds no panel.
InitializeWakeCoefficientsOneLayer(l, nodes, dc) == AddLayerCoefficients(l, nodes, dc)

\* The wake doublet coefficients after the two add_layer calls of
\* initialize_wakes.
InitializeWakeCoefficients(l, nodes, dc) ==
    AddLayerCoefficients(l, AddLayerNodes(l, nodes), AddLayerCoefficients(l, nodes, dc))

\* Solver::initialize_wakes: two add_layer calls for every registered wake,
\* whatever the wake holds already (the call is not made when it would take a
\* wake past MaxLayers layers).
InitializeWakes ==
    /\ Running
    /\ \A l \in RegisteredLiftingIds :
            WakeNNodes(wake_nodes, l) + 2 * NSpanwiseNodes(l) <= MaxLayers * NSpanwiseNodes(l)
    /\ wake_nodes' = [l \in LiftingSurfaceIds |->
                        IF l \in RegisteredLiftingIds
                        THEN InitializeWakeNodes(BodyOfLifting(l), l, wake_nodes[l], time_step)
                        ELSE wake_nodes[l]]
    /\ wake_doublet_coefficients' = [l \in LiftingSurfaceIds |->
                        IF l \in RegisteredLiftingIds
                        THEN InitializeWakeCoefficients(l, wake_nodes[l], wake_doublet_coefficients[l])
                        ELSE wake_doublet_coefficients[l]]
    /\ last_call' = Call("initialize_wakes", "void")
    /\ UNCHANGED <<solver_vars, blowing, param_vars, ub>>

\* ------------------------------------------------------- solve: the phases

RECURSIVE SumInt(_, _)
SumInt(f, n) == IF n <= 0 THEN 0 ELSE f[n - 1] + SumInt(f, n - 1)

RECURSIVE SumVec(_, _)
SumVec(f, n) == IF n <= 0 THEN Zero3 ELSE VAdd(f[n - 1], SumVec(f, n - 1))

\* The scan every loop over the surfaces does, offset += n_panels after each:
\* the position k (1-based) in non_wake_surfaces of the surface that holds
\* global panel index g, and the offset the scan has reached there.
RECURSIVE SurfaceIndexScan(_, _, _, _)
SurfaceIndexScan(surfaces, g, k, offset) ==
    IF g < offset + NPanels(surfaces[k]) THEN [k |-> k, offset |-> offset]
    ELSE SurfaceIndexScan(surfaces, g, k + 1, offset + NPanels(surfaces[k]))

SurfaceIndexOf(g) == SurfaceIndexScan(non_wake_surfaces, g, 1, 0).k

SurfaceOf(g) == non_wake_surfaces[SurfaceIndexOf(g)]

OffsetOf(g) == SurfaceIndexScan(non_wake_surfaces, g, 1, 0).offset

\* BoundaryLayer::blowing_velocity (DummyBoundaryLayer returns 0).
BlowingVelocity(blow, s, p) == IF HasBoundaryLayer(s) THEN blow[s][p] ELSE 0

\* The k loop running over every panel of the wake, the newest strip included.
OldWakeVelocityWithNewestStrip(l, s, p, wdc) ==
    SumVec([k \in 0..(WakeNPanels(wdc, l) - 1) |->
               VScale(wdc[l][k], WakeVortexRingUnitVelocity(l, s, p, k))],
           WakeNPanels(wdc, l))

\* compute_source_coefficient, the k loop over the old panels of one wake:
\* k < wake.n_panels() - n_spanwise_panels.
OldWakeVelocity(l, s, p, wdc) ==
    SumVec([k \in 0..(WakeNPanels(wdc, l) - NSpanwisePanels(l) - 1) |->
               VScale(wdc[l][k], WakeVortexRingUnitVelocity(l, s, p, k))],
           WakeNPanels(wdc, l) - NSpanwisePanels(l))

\* compute_source_coefficient, the loops over bodies and lifting surfaces.
RECURSIVE WakeContribution(_, _, _, _)
WakeContribution(lifting, s, p, wdc) ==
    IF lifting = << >> THEN Zero3
    ELSE VAdd(OldWakeVelocity(Head(lifting).ls, s, p, wdc),
              WakeContribution(Tail(lifting), s, p, wdc))

\* Solver::compute_source_coefficient
ComputeSourceCoefficient(b, s, p, blow, include_wake_influence, wdc) ==
    LET apparent == VSub(PanelKinematicVelocity(b, s, p), freestream_velocity)
        velocity == IF convect_wake /\ include_wake_influence
                    THEN VSub(apparent, WakeContribution(RegisteredLifting(bodies), s, p, wdc))
                    ELSE apparent
    IN  Dot(velocity, PanelNormal(s, p)) - BlowingVelocity(blow, s, p)

\* The source-distribution loops of solve (with and without wake influence).
SourceDistribution(include_wake_influence, wdc, blow) ==
    [g \in 0..(n_non_wake_panels - 1) |->
        ComputeSourceCoefficient(surface_id_to_body[SurfaceOf(g)], SurfaceOf(g),
                                 g - OffsetOf(g), blow, include_wake_influence, wdc)]

\* Surface::source_and_doublet_influence(observer surface, i, j): the source and
\* the doublet influence of panel j of s_col on panel i of s_row.
SourceInfluenceCoefficient(s_col, s_row, i, j) == IF s_col = s_row /\ i = j THEN 2 ELSE 1

DoubletInfluenceCoefficient(s_col, s_row, i, j) == IF s_col = s_row /\ i = j THEN 3 ELSE 1

\* Wake::doublet_influence(observer surface, i, wake panel)
WakeDoubletInfluenceOn(l, s_row, i, wake_panel) == wake_panel + 1

\* The scan of the Kutta wiring: lifting_surface_offset of every lifting
\* surface, bodies in order, each body's non-lifting surfaces skipped first.
RECURSIVE WiringLifting(_, _)
WiringLifting(ls, lifting_surface_offset) ==
    IF ls = << >> THEN << >>
    ELSE <<[ls |-> Head(ls), offset |-> lifting_surface_offset]>>
         \o WiringLifting(Tail(ls), lifting_surface_offset + NPanels(Head(ls)))

\* The scan of the Kutta wiring counting the lifting surfaces only.
RECURSIVE WiringOffsetsLiftingOnly(_, _)
WiringOffsetsLiftingOnly(bs, lifting_surface_offset) ==
    IF bs = << >> THEN << >>
    ELSE WiringLifting(LiftingSurfaces(Head(bs)), lifting_surface_offset)
         \o WiringOffsetsLiftingOnly(Tail(bs), lifting_surface_offset
                                               + SumPanels(LiftingSurfaces(Head(bs))))

RECURSIVE WiringOffsets(_, _)
WiringOffsets(bs, lifting_surface_offset) ==
    IF bs = << >> THEN << >>
    ELSE LET start == lifting_surface_offset + SumPanels(NonLiftingSurfaces(Head(bs)))
         IN  WiringLifting(LiftingSurfaces(Head(bs)), start)
             \o WiringOffsets(Tail(bs), start + SumPanels(LiftingSurfaces(Head(bs))))

\* What the wiring adds to A(row, col) for one lifting surface: the influence of
\* each newest-strip wake panel, plus at the upper panel's column, minus at the lower's.
WiringTerm(w, wdc, row, col) ==
    LET wake_panel_offset == WakeNPanels(wdc, w.ls) - NSpanwisePanels(w.ls)
    IN  SumInt([j \in 0..(NSpanwisePanels(w.ls) - 1) |->
                  LET infl == WakeDoubletInfluenceOn(w.ls, SurfaceOf(row), row - OffsetOf(row),
                                                     wake_panel_offset + j)
                  IN  (IF col = w.offset + TrailingEdgeUpperPanel(w.ls, j) THEN infl ELSE 0)
                      - (IF col = w.offset + TrailingEdgeLowerPanel(w.ls, j) THEN infl ELSE 0)],
               NSpanwisePanels(w.ls))

\* The matrix A of solve: doublet influences between all non-wake panels, then
\* the Kutta wiring of the new wake panels.
DoubletInfluenceMatrix(wdc) ==
    LET wiring == WiringOffsets(bodies, 0)
    IN  [row \in 0..(n_non_wake_panels - 1) |->
          [col \in 0..(n_non_wake_panels - 1) |->
              DoubletInfluenceCoefficient(SurfaceOf(col), SurfaceOf(row),
                                          row - OffsetOf(row), col - OffsetOf(col))
              + SumInt([k \in 0..(Len(wiring) - 1) |-> WiringTerm(wiring[k + 1], wdc, row, col)],
                       Len(wiring))]]

\* b = source_influence_coefficients * source_coefficients, with the matrix
\* source_influence_coefficients filled by the double loop over the surfaces.
RightHandSide(sigma) ==
    LET at == Stored([g \in 0..(n_non_wake_panels - 1) |->
                         [surface |-> SurfaceOf(g), panel |-> g - OffsetOf(g)]])
    IN  [row \in 0..(n_non_wake_panels - 1) |->
            SumInt([col \in 0..(n_non_wake_panels - 1) |->
                       SourceInfluenceCoefficient(at[col].surface, at[row].surface,
                                                  at[row].panel, at[col].panel) * sigma[col]],
                   n_non_wake_panels)]

\* The vectors an iterative solve may return: DoubletFamily(seed, n) for a seed
\* of SeedChoices.
SeedChoices == {0, 1}

DoubletFamily(seed, n) == [i \in 0..(n - 1) |-> (seed * (i + 1)) % 4]

\* BiCGSTAB::solveWithGuess and info(): a zero right-hand side gives the zero
\* vector at once; otherwise the iteration ends with Success and some vector, or
\* without convergence and the iterate it stopped at.
LinearSolve(A, b, guess) ==
    IF \A i \in DOMAIN b : b[i] = 0
    THEN {[info |-> "Success", x |-> ZeroVector(Size(b))]}
    ELSE {[info |-> "NoConvergence", x |-> DoubletFamily(1, Size(b))]}
         \cup {[info |-> "Success", x |-> DoubletFamily(seed, Size(b))] : seed \in SeedChoices}

\* The Kutta condition taken at the panels of the first registered surface: the
\* offset of the lifting surface is left out.
KuttaStripWithoutOffset(l, offset, mu, dc) ==
    LET tail_index == Size(dc) - NSpanwisePanels(l)
    IN  [idx \in DOMAIN dc |->
            IF idx >= tail_index
            THEN mu[TrailingEdgeUpperPanel(l, idx - tail_index)]
                 - mu[TrailingEdgeLowerPanel(l, idx - tail_index)]
            ELSE dc[idx]]

\* The Kutta condition for one wake: the newest strip (the last n_spanwise_panels
\* entries) is set to the trailing-edge jump of the doublet distribution.
KuttaStrip(l, offset, mu, dc) ==
    LET tail_index == Size(dc) - NSpanwisePanels(l)
    IN  [idx \in DOMAIN dc |->
            IF idx >= tail_index
            THEN mu[offset + TrailingEdgeUpperPanel(l, idx - tail_index)]
                 - mu[offset + TrailingEdgeLowerPanel(l, idx - tail_index)]
            ELSE dc[idx]]

\* The Kutta condition written to every strip of the wake.
KuttaLiftingEveryStrip(ls, offset, mu, wdc) ==
    IF ls = << >> THEN wdc
    ELSE [wdc EXCEPT ![Head(ls)] =
            [idx \in DOMAIN wdc[Head(ls)] |->
                mu[offset + TrailingEdgeUpperPanel(Head(ls), idx % NSpanwisePanels(Head(ls)))]
                - mu[offset + TrailingEdgeLowerPanel(Head(ls), idx % NSpanwisePanels(Head(ls)))]]]

\* "Set new wake panel doublet coefficients": the lifting surfaces of one body.
RECURSIVE KuttaLifting(_, _, _, _)
KuttaLifting(ls, offset, mu, wdc) ==
    IF ls = << >> THEN wdc
    ELSE KuttaLifting(Tail(ls), offset + NPanels(Head(ls)), mu,
                      [wdc EXCEPT ![Head(ls)] = KuttaStrip(Head(ls), offset, mu, wdc[Head(ls)])])

\* "Set new wake panel doublet coefficients": the loop over the bodies.
RECURSIVE KuttaClosure(_, _, _, _)
KuttaClosure(bs, offset, mu, wdc) ==
    IF bs = << >> THEN wdc
    ELSE LET start == offset + SumPanels(NonLiftingSurfaces(Head(bs)))
         IN  KuttaClosure(Tail(bs), start + SumPanels(LiftingSurfaces(Head(bs))), mu,
                          KuttaLifting(LiftingSurfaces(Head(bs)), start, mu, wdc))

\* The value of a Vector3d that is read before anything was assigned to it: any
\* value at all, which no computation of the model looks into.
Indeterminate3 == <<"indeterminate", "indeterminate", "indeterminate">>

\* Solver::compute_surface_velocity.  In Marcov mode the disturbance velocity is
\* assigned to a block-local variable of the same name, which is gone at the
\* closing brace: the outer tangential_velocity the function goes on with was
\* never assigned, and what is computed from it and returned is indeterminate.
ComputeSurfaceVelocity(s, offset, p, mu) ==
    IF marcov_surface_velocity THEN Indeterminate3
    ELSE LET tangential_velocity == VScale(-1, ScalarFieldGradient(s, mu, offset, p))
             apparent_velocity == VSub(PanelKinematicVelocity(surface_id_to_body[s], s, p),
                                       freestream_velocity)
             with_kinematic == VSub(tangential_velocity, apparent_velocity)
             normal == PanelNormal(s, p)
         IN  VSub(with_kinematic, VScale(Dot(with_kinematic, normal), normal))

\* The surface-velocity loops of solve.
SurfaceVelocityDistribution(mu) ==
    [g \in 0..(n_non_wake_panels - 1) |->
        ComputeSurfaceVelocity(SurfaceOf(g), OffsetOf(g), g - OffsetOf(g), mu)]

\* BoundaryLayer::recalculate of a non-dummy boundary layer, handed the block of
\* surface velocities of its surface: the new blowing velocity of each panel.
Recalculate(s, block) == Stored([p \in 0..(NPanels(s) - 1) |-> SquaredNorm(block[p]) % 3])

\* "Recompute the boundary layers": recalculate on every non-dummy boundary layer.
RecomputeBoundaryLayers(blow, sv) ==
    [s \in DOMAIN blow |->
        IF \E k \in DOMAIN non_wake_surfaces : non_wake_surfaces[k] = s
        THEN LET offset == OffsetAt(non_wake_surfaces,
                                    CHOOSE k \in DOMAIN non_wake_surfaces : non_wake_surfaces[k] = s)
             IN  Recalculate(s, [p \in 0..(NPanels(s) - 1) |-> sv[offset + p]])
        ELSE blow[s]]

\* have_boundary_layer left true whatever the scan finds.
HaveBoundaryLayerAlways == TRUE

\* have_boundary_layer after the scan.
HaveBoundaryLayer ==
    \E k \in DOMAIN non_wake_surfaces : HasBoundaryLayer(non_wake_surfaces[k])

\* Solver::compute_disturbance_velocity_potential
ComputeDisturbanceVelocityPotential(x, mu, sigma, wdc) ==
    LET lifting == RegisteredLifting(bodies)
    IN  SumInt([g \in 0..(n_non_wake_panels - 1) |->
                   DoubletInfluence(SurfaceOf(g), x, g - OffsetOf(g)) * mu[g]
                   + SourceInfluence(SurfaceOf(g), x, g - OffsetOf(g)) * sigma[g]],
               n_non_wake_panels)
        + SumInt([k \in 0..(Len(lifting) - 1) |->
                   SumInt([i \in DOMAIN wdc[lifting[k + 1].ls] |->
                              WakeDoubletInfluence(lifting[k + 1].ls, x, i) * wdc[lifting[k + 1].ls][i]],
                          WakeNPanels(wdc, lifting[k + 1].ls))],
                 Len(lifting))

\* Solver::compute_disturbance_velocity
ComputeDisturbanceVelocity(x, mu, sigma, wdc, nodes) ==
    LET lifting == RegisteredLifting(bodies)
    IN  VAdd(SumVec([g \in 0..(n_non_wake_panels - 1) |->
                       VAdd(VScale(mu[g], VortexRingUnitVelocity(SurfaceOf(g), x, g - OffsetOf(g))),
                            VScale(sigma[g], SourceUnitVelocity(SurfaceOf(g), x, g - OffsetOf(g))))],
                    n_non_wake_panels),
             SumVec([k \in 0..(Len(lifting) - 1) |->
                       IF WakeNPanels(wdc, lifting[k + 1].ls) >= NSpanwisePanels(lifting[k + 1].ls)
                       THEN SumVec([i \in DOMAIN wdc[lifting[k + 1].ls] |->
                                      VScale(wdc[lifting[k + 1].ls][i],
                                             WakeVortexRingUnitVelocityAt(nodes[lifting[k + 1].ls], x, i))],
                                   WakeNPanels(wdc, lifting[k + 1].ls))
                       ELSE Zero3],
                    Len(lifting)))

\* Solver::velocity_potential and Solver::velocity
VelocityPotential(x, mu, sigma, wdc) ==
    ComputeDisturbanceVelocityPotential(x, mu, sigma, wdc) + Dot(freestream_velocity, x)

Velocity(x, mu, sigma, wdc, nodes) ==
    VAdd(ComputeDisturbanceVelocity(x, mu, sigma, wdc, nodes), freestream_velocity)

\* Solver::compute_surface_velocity_potential
ComputeSurfaceVelocityPotential(s, offset, p, mu, sigma, wdc) ==
    IF marcov_surface_velocity
    THEN VelocityPotential(PanelCollocationPoint(s, p), mu, sigma, wdc)
    ELSE -mu[offset + p]
         - Dot(VSub(PanelKinematicVelocity(surface_id_to_body[s], s, p), freestream_velocity),
               PanelCollocationPoint(s, p))

\* The time derivative taken whatever Parameters::unsteady_bernoulli says.
TimeDerivativeIgnoringFlag(phi, prev, g, dt) ==
    IF dt > 0 THEN [n |-> phi[g] - prev[g], d |-> dt] ELSE [n |-> 0, d |-> 1]

\* Solver::compute_surface_velocity_potential_time_derivative: the quotient
\* (phi - previous phi) / dt as numerator and denominator, or 0.
ComputeSurfaceVelocityPotentialTimeDerivative(phi, prev, g, dt) ==
    IF unsteady_bernoulli /\ dt > 0
    THEN [n |-> phi[g] - prev[g], d |-> dt]
    ELSE [n |-> 0, d |-> 1]

\* Solver::compute_reference_velocity_squared
ComputeReferenceVelocitySquared(b) == SquaredNorm(VSub(BodyVelocity(b), freestream_velocity))

\* Solver::compute_pressure_coefficient:
\* 1 - (surface_velocity.squaredNorm() + 2 * dphidt) / v_ref_squared
ComputePressureCoefficient(surface_velocity, dphidt, v_ref_squared) ==
    Frac(dphidt.d * v_ref_squared - (SquaredNorm(surface_velocity) * dphidt.d + 2 * dphidt.n),
         dphidt.d * v_ref_squared)

\* --------------------------------------------------------- solve: the call

\* The working state of one solve call: the members it reads and writes, and
\* what the call did so far (trace: the phases in the order they ran).
SolveStart ==
    [sigma |-> source_coefficients, mu |-> doublet_coefficients,
     wdc |-> wake_doublet_coefficients, sv |-> surface_velocities, blow |-> blowing,
     phi |-> surface_velocity_potentials, cp |-> pressure_coefficients,
     prev |-> previous_surface_velocity_potentials,
     trace |-> << >>, exit |-> "none", info |-> "none", linear_solves |-> 0,
     recalculations |-> 0, rhs |-> << >>, solution |-> << >>, converged |-> FALSE,
     pre |-> << >>, passes |-> << >>]

\* The members as they are at one point of the call.
Members(st) ==
    [mu |-> st.mu, wdc |-> st.wdc, sv |-> st.sv, phi |-> st.phi, cp |-> st.cp,
     prev |-> st.prev, blow |-> st.blow]

\* "Compute source distribution" (with wake influence), lines 456-476.
SourcesWithWakePhase(st) ==
    [st EXCEPT !.sigma = Stored(SourceDistribution(TRUE, st.wdc, st.blow)),
               !.trace = Append(@, "sources_with_wake")]

\* Lines 478-574: the matrices, b, the BiCGSTAB call, and what is known right
\* after it (rhs: the source coefficients b was built from; solution: the vector
\* the solver handed back; pre: the members as they were when a failing linear
\* solve was entered).
LinearSolvePhase(st, outcome) ==
    [st EXCEPT !.trace = Append(Append(@, "matrices"),
                                IF outcome.info = "Success" THEN "linear_solve"
                                ELSE "linear_solve_failed"),
               !.info = outcome.info,
               !.linear_solves = @ + 1,
               !.rhs = st.sigma,
               !.solution = IF outcome.info = "Success" THEN outcome.x ELSE << >>,
               !.pre = IF outcome.info = "Success" THEN << >> ELSE Members(st)]

\* The convergence test applied from the first iteration on.
ConvergedFromFirstIteration(boundary_layer_iteration, new_doublet_coefficients, old) ==
    SumInt([i \in DOMAIN old |-> (new_doublet_coefficients[i] - old[i])
                                  * (new_doublet_coefficients[i] - old[i])], Size(old))
       < boundary_layer_iteration_tolerance * boundary_layer_iteration_tolerance

\* Lines 576-581: the convergence test of the boundary-layer iteration.
Converged(boundary_layer_iteration, new_doublet_coefficients, old) ==
    /\ boundary_layer_iteration > 0
    /\ SumInt([i \in DOMAIN old |-> (new_doublet_coefficients[i] - old[i])
                                     * (new_doublet_coefficients[i] - old[i])], Size(old))
       < boundary_layer_iteration_tolerance * boundary_layer_iteration_tolerance

\* Lines 576-617: the convergence test, doublet_coefficients =
\* new_doublet_coefficients, then the wakes (passes: per pass, the iteration
\* counter, the two vectors the test had before it and what it found).
KuttaPhase(st, x, boundary_layer_iteration) ==
    [st EXCEPT !.converged = Converged(boundary_layer_iteration, x, st.mu),
               !.passes = Append(@, [iteration |-> boundary_layer_iteration,
                                     current |-> st.mu, new |-> Stored(x),
                                     converged |-> Converged(boundary_layer_iteration,
                                                             x, st.mu)]),
               !.mu = Stored(x),
               !.wdc = Stored(KuttaClosure(bodies, 0, x, st.wdc)),
               !.trace = Append(@, "kutta")]

\* Lines 619-636.
SurfaceVelocityPhase(st) ==
    [st EXCEPT !.sv = Stored(SurfaceVelocityDistribution(st.mu)),
               !.trace = Append(@, "surface_velocities")]

\* The surface-velocity loops call compute_surface_velocity at least once and
\* every call reads the vector that was never assigned.
ReadsUninitialised == marcov_surface_velocity /\ n_non_wake_panels > 0

\* Lines 651-666.
BoundaryLayerPhase(st) ==
    [st EXCEPT !.blow = Stored(RecomputeBoundaryLayers(st.blow, st.sv)),
               !.recalculations = IF HaveBoundaryLayer THEN @ + 1 ELSE @,
               !.trace = Append(@, "boundary_layers")]

RECURSIVE BoundaryLayerLoop(_, _)

\* The loop giving up at the iteration cap as it does at a failed linear solve.
LoopEndCapFails(st, converged, boundary_layer_iteration) ==
    IF converged THEN {[st EXCEPT !.exit = "converged"]}
    ELSE IF boundary_layer_iteration > max_boundary_layer_iterations
    THEN {[st EXCEPT !.exit = "failed"]}
    ELSE IF ~HaveBoundaryLayer
    THEN {[BoundaryLayerPhase(st) EXCEPT !.exit = "no_boundary_layer"]}
    ELSE BoundaryLayerLoop(BoundaryLayerPhase(st), boundary_layer_iteration + 1)

\* The loop with the cap tested one iteration late.
LoopEndCapOneLate(st, converged, boundary_layer_iteration) ==
    IF converged THEN {[st EXCEPT !.exit = "converged"]}
    ELSE IF boundary_layer_iteration > max_boundary_layer_iterations + 1
    THEN {[st EXCEPT !.exit = "capped"]}
    ELSE IF ~HaveBoundaryLayer
    THEN {[BoundaryLayerPhase(st) EXCEPT !.exit = "no_boundary_layer"]}
    ELSE BoundaryLayerLoop(BoundaryLayerPhase(st), boundary_layer_iteration + 1)

\* Lines 638-673: how one pass of the loop ends.
LoopEnd(st, converged, boundary_layer_iteration) ==
    IF converged THEN {[st EXCEPT !.exit = "converged"]}
    ELSE IF boundary_layer_iteration > max_boundary_layer_iterations
    THEN {[st EXCEPT !.exit = "capped"]}
    ELSE IF ~HaveBoundaryLayer
    THEN {[BoundaryLayerPhase(st) EXCEPT !.exit = "no_boundary_layer"]}
    ELSE BoundaryLayerLoop(BoundaryLayerPhase(st), boundary_layer_iteration + 1)

\* The pass going on after the linear solve whatever solver.info() says.
AfterLinearSolveIgnoringInfo(st, outcome, boundary_layer_iteration) ==
    LET closed == KuttaPhase(LinearSolvePhase(st, outcome), outcome.x,
                             boundary_layer_iteration)
    IN  IF ReadsUninitialised
        THEN {[SurfaceVelocityPhase(closed) EXCEPT !.exit = "uninitialised_read"]}
        ELSE LoopEnd(SurfaceVelocityPhase(closed), closed.converged,
                     boundary_layer_iteration)

\* Lines 565-636: one outcome of the linear solve and what follows it in the pass.
AfterLinearSolve(st, outcome, boundary_layer_iteration) ==
    IF outcome.info # "Success"
    THEN {[LinearSolvePhase(st, outcome) EXCEPT !.exit = "failed"]}
    ELSE LET closed == KuttaPhase(LinearSolvePhase(st, outcome), outcome.x,
                                  boundary_layer_iteration)
         IN  IF ReadsUninitialised
             THEN {[SurfaceVelocityPhase(closed) EXCEPT !.exit = "uninitialised_read"]}
             ELSE LoopEnd(SurfaceVelocityPhase(closed), closed.converged,
                          boundary_layer_iteration)

\* The while (true) loop of solve, from the top of one pass: the set of states
\* in which the loop can end.
BoundaryLayerLoop(st, boundary_layer_iteration) ==
    LET sourced == SourcesWithWakePhase(st)
    IN  UNION {AfterLinearSolve(sourced, outcome, boundary_layer_iteration)
               : outcome \in LinearSolve(DoubletInfluenceMatrix(sourced.wdc),
                                         RightHandSide(sourced.sigma), sourced.mu)}

\* The recomputation done with the wake influence left in.
SourcesRecomputedWithWake(st) ==
    IF convect_wake
    THEN [st EXCEPT !.sigma = SourceDistribution(TRUE, st.wdc, st.blow),
                    !.trace = Append(@, "sources_without_wake")]
    ELSE st

\* Lines 676-698.
SourcesWithoutWakePhase(st) ==
    IF convect_wake
    THEN [st EXCEPT !.sigma = Stored(SourceDistribution(FALSE, st.wdc, st.blow)),
                    !.trace = Append(@, "sources_without_wake")]
    ELSE st

\* Lines 700-729: potential, its time derivative and the pressure coefficient
\* of every panel.
PressurePhase(st, dt) ==
    LET phi == Stored([g \in 0..(n_non_wake_panels - 1) |->
                   ComputeSurfaceVelocityPotential(SurfaceOf(g), OffsetOf(g), g - OffsetOf(g),
                                                   st.mu, st.sigma, st.wdc)])
    IN  [st EXCEPT !.phi = phi,
                   !.cp = [g \in 0..(n_non_wake_panels - 1) |->
                             ComputePressureCoefficient(
                                 st.sv[g],
                                 ComputeSurfaceVelocityPotentialTimeDerivative(phi, st.prev, g, dt),
                                 ComputeReferenceVelocitySquared(surface_id_to_body[SurfaceOf(g)]))],
                   !.trace = Append(@, "pressure")]

\* The snapshot taken whether or not the caller asked for it.
PropagateUnasked(st, propagate) == [st EXCEPT !.prev = st.phi]

\* Solver::propagate, called at the end of solve if requested.
PropagatePhase(st, propagate) ==
    IF propagate
    THEN [st EXCEPT !.prev = st.phi, !.trace = Append(@, "propagate")]
    ELSE st

\* The pressure phase run before the source recomputation.
AfterLoopPressureFirst(st, dt, propagate) ==
    IF st.exit \in {"failed", "uninitialised_read"} THEN st
    ELSE PropagatePhase(SourcesWithoutWakePhase(PressurePhase(st, dt)), propagate)

\* Lines 676-736: what follows the loop (nothing, after a failed linear solve).
AfterLoop(st, dt, propagate) ==
    IF st.exit \in {"failed", "uninitialised_read"} THEN st
    ELSE PropagatePhase(PressurePhase(SourcesWithoutWakePhase(st), dt), propagate)

\* The newest-strip index wake.n_panels() - n_spanwise_panels + k is in range
\* for every registered wake.
WakesReady ==
    \A l \in RegisteredLiftingIds :
        WakeNPanels(wake_doublet_coefficients, l) >= NSpanwisePanels(l)

\* Solver::solve(dt, propagate), for either value of propagate
Solve ==
    /\ Running
    /\ WakesReady
    /\ \E r \in {AfterLoop(st, time_step, propagate)
                 : st \in BoundaryLayerLoop(SolveStart, 0), propagate \in BOOLEAN} :
            /\ r.exit # "uninitialised_read"
            /\ source_coefficients' = r.sigma
            /\ doublet_coefficients' = r.mu
            /\ wake_doublet_coefficients' = r.wdc
            /\ surface_velocities' = r.sv
            /\ blowing' = r.blow
            /\ surface_velocity_potentials' = r.phi
            /\ pressure_coefficients' = r.cp
            /\ previous_surface_velocity_potentials' = r.prev
            /\ last_call' = [op |-> "solve", ret |-> IF r.exit = "failed" THEN "false" ELSE "true",
                             trace |-> r.trace,
                             exit |-> r.exit, info |-> r.info, linear_solves |-> r.linear_solves,
                             recalculations |-> r.recalculations, rhs |-> r.rhs,
                             solution |-> r.solution, converged |-> r.converged,
                             pre |-> r.pre, passes |-> r.passes,
                             subject |-> "none", panel |-> 0, value |-> << >>,
                             writes |-> << >>]
    /\ UNCHANGED <<bodies, non_wake_surfaces, surface_id_to_body, n_non_wake_panels,
                   freestream_velocity, fluid_density, wake_nodes, param_vars, ub>>

\* solve in Marcov mode, once a linear solve has succeeded: the surface-velocity
\* loop reads the vector compute_surface_velocity never assigned.  What the call
\* stores and returns from there on is any value at all; the model records the
\* fault, with the phases run up to it, and stops.
SolveUninitialisedRead ==
    /\ Running
    /\ WakesReady
    /\ ReadsUninitialised
    /\ \E st \in BoundaryLayerLoop(SolveStart, 0) :
            /\ st.exit = "uninitialised_read"
            /\ last_call' = [Call("solve", "undefined") EXCEPT
                                !.exit = st.exit, !.trace = st.trace,
                                !.linear_solves = st.linear_solves]
    /\ ub' = TRUE
    /\ UNCHANGED <<solver_vars, wake_vars, blowing, param_vars>>

\* Solver::propagate called by the driver itself.
Propagate ==
    /\ Running
    /\ previous_surface_velocity_potentials' = surface_velocity_potentials
    /\ last_call' = Call("propagate", "void")
    /\ UNCHANGED <<bodies, non_wake_surfaces, surface_id_to_body, n_non_wake_panels,
                   doublet_coefficients, source_coefficients, surface_velocity_potentials,
                   pressure_coefficients, surface_velocities, freestream_velocity,
                   fluid_density, wake_vars, blowing, param_vars, ub>>

\* solve on a wake without a strip: the matrix wiring and the Kutta closure index
\* the wake at wake.n_panels() - n_spanwise_panels + k < 0.  Nothing is known of
\* the state afterwards; the model records the fault and stops.
SolveOutOfRange ==
    /\ Running
    /\ ~WakesReady
    /\ ub' = TRUE
    /\ last_call' = Call("solve", "undefined")
    /\ UNCHANGED <<solver_vars, wake_vars, blowing, param_vars>>

\* ------------------------------------------------------------ update_wakes

\* update_wakes, convecting branch, first loop: velocity() at every node of
\* every wake, one vector of velocities pushed back per lifting surface.
WakeVelocities(lifting, nodes) ==
    [k \in 1..Len(lifting) |->
        Stored([i \in DOMAIN nodes[lifting[k].ls] |->
                   Velocity(nodes[lifting[k].ls][i].v, doublet_coefficients,
                            source_coefficients, wake_doublet_coefficients, nodes)])]

\* update_wakes, convecting branch, second loop, for one wake: the newest layer
\* moves by the trailing-edge displacement, every older node by its local wake
\* velocity times dt, then add_layer.
ConvectWakeNodes(b, l, nodes, local_wake_velocities, dt) ==
    LET n == Size(nodes)
        convected ==
            [i \in DOMAIN nodes |->
                IF i >= n - NSpanwiseNodes(l)
                THEN PAdd(nodes[i], Pos(ComputeTrailingEdgeVortexDisplacement(
                                            b, l, i - (n - NSpanwiseNodes(l)), dt)))
                ELSE PAdd(nodes[i], Pos(VScale(dt, local_wake_velocities[i])))]
    IN  AddLayerNodes(l, convected)

\* The second loop taking the velocities of each wake when it comes to it,
\* with the wakes before it already moved.
RECURSIVE ConvectWakesSamplingAsItGoes(_, _, _, _, _)
ConvectWakesSamplingAsItGoes(lifting, idx, wake_velocities, nodes, dt) ==
    IF lifting = << >> THEN nodes
    ELSE LET d == Head(lifting)
         IN  ConvectWakesSamplingAsItGoes(
                 Tail(lifting), idx + 1, wake_velocities,
                 [nodes EXCEPT ![d.ls] = ConvectWakeNodes(d.body, d.ls, nodes[d.ls],
                                                          WakeVelocities(<<d>>, nodes)[1], dt)],
                 dt)

\* update_wakes, convecting branch, second loop over the bodies and their
\* lifting surfaces: wake_velocities[idx], idx++, and the wake is moved.
RECURSIVE ConvectWakes(_, _, _, _, _)
ConvectWakes(lifting, idx, wake_velocities, nodes, dt) ==
    IF lifting = << >> THEN nodes
    ELSE LET d == Head(lifting)
         IN  ConvectWakes(
                 Tail(lifting), idx + 1, wake_velocities,
                 [nodes EXCEPT ![d.ls] = ConvectWakeNodes(d.body, d.ls, nodes[d.ls],
                                                          wake_velocities[idx + 1], dt)],
                 dt)

\* The static branch putting the first layer static_wake_length behind where
\* it is now.
RepositionWakeNodesFromCurrent(b, l, nodes) ==
    [i \in DOMAIN nodes |->
        IF i < NSpanwiseNodes(l)
        THEN PSub(nodes[i], StaticWakeOffset(VSub(BodyVelocity(b), freestream_velocity)))
        ELSE IF i < 2 * NSpanwiseNodes(l)
        THEN Pos(TrailingEdgeNodePosition(l, i - NSpanwiseNodes(l)))
        ELSE nodes[i]]

\* update_wakes, static branch, for one wake: the second layer is put on the
\* trailing edge and the first one static_wake_length behind it.
RepositionWakeNodes(b, l, nodes) ==
    [i \in DOMAIN nodes |->
        IF i < NSpanwiseNodes(l)
        THEN PSub(Pos(TrailingEdgeNodePosition(l, i)),
                  StaticWakeOffset(VSub(BodyVelocity(b), freestream_velocity)))
        ELSE IF i < 2 * NSpanwiseNodes(l)
        THEN Pos(TrailingEdgeNodePosition(l, i - NSpanwiseNodes(l)))
        ELSE nodes[i]]

\* Every node index update_wakes uses is in range for every registered wake.
WakesUpdatable ==
    \A l \in RegisteredLiftingIds :
        IF convect_wake
        THEN WakeNNodes(wake_nodes, l) >= NSpanwiseNodes(l)
        ELSE WakeNNodes(wake_nodes, l) >= 2 * NSpanwiseNodes(l)

\* Solver::update_wakes
UpdateWakes ==
    /\ Running
    /\ WakesUpdatable
    /\ convect_wake =>
            \A l \in RegisteredLiftingIds :
                WakeNNodes(wake_nodes, l) < MaxLayers * NSpanwiseNodes(l)
    /\ wake_nodes' = IF convect_wake
                     THEN ConvectWakes(RegisteredLifting(bodies), 0,
                                       WakeVelocities(RegisteredLifting(bodies), wake_nodes),
                                       wake_nodes, time_step)
                     ELSE [l \in LiftingSurfaceIds |->
                              IF l \in RegisteredLiftingIds
                              THEN RepositionWakeNodes(BodyOfLifting(l), l, wake_nodes[l])
                              ELSE wake_nodes[l]]
    /\ wake_doublet_coefficients' = [l \in LiftingSurfaceIds |->
                        IF l \in RegisteredLiftingIds /\ convect_wake
                        THEN AddLayerCoefficients(l, wake_nodes[l], wake_doublet_coefficients[l])
                        ELSE wake_doublet_coefficients[l]]
    /\ last_call' = Call("update_wakes", "void")
    /\ UNCHANGED <<solver_vars, blowing, param_vars, ub>>

\* update_wakes on a wake that was never initialised: the node index
\* n_nodes - n_spanwise_nodes + i (convecting) or n_spanwise_nodes + i (static)
\* is out of range.
UpdateWakesOutOfRange ==
    /\ Running
    /\ ~WakesUpdatable
    /\ ub' = TRUE
    /\ last_call' = Call("update_wakes", "undefined")
    /\ UNCHANGED <<solver_vars, wake_vars, blowing, param_vars>>

\* ---------------------------------------------------------- post-processing

\* Solver::set_fluid_density (a call with the value already stored assigns
\* nothing new and is not a step of the model).
SetFluidDensity(value) ==
    /\ Running
    /\ value # fluid_density
    /\ fluid_density' = value
    /\ last_call' = Call("set_fluid_density", "void")
    /\ UNCHANGED <<bodies, non_wake_surfaces, surface_id_to_body, n_non_wake_panels,
                   doublet_coefficients, source_coefficients, surface_velocity_potentials,
                   previous_surface_velocity_potentials, pressure_coefficients,
                   surface_velocities, freestream_velocity, wake_vars, blowing,
                   param_vars, ub>>

\* Arithmetic of doubles held as fractions, with the IEEE rules for inf and NaN.
FracAdd(a, b) ==
    IF a.d = 0 /\ b.d = 0
    THEN IF a.n = b.n THEN a ELSE Frac(0, 0)
    ELSE Frac(a.n * b.d + b.n * a.d, a.d * b.d)

FracMul(a, b) == Frac(a.n * b.n, a.d * b.d)

FracSub(a, b) == FracAdd(a, FracMul(Frac(-1, 1), b))

FracVector(v) == <<Frac(v[1], 1), Frac(v[2], 1), Frac(v[3], 1)>>

FracVAdd(a, b) == <<FracAdd(a[1], b[1]), FracAdd(a[2], b[2]), FracAdd(a[3], b[3])>>

\* Vector3d::cross
FracCross(r, f) ==
    <<FracSub(FracMul(r[2], f[3]), FracMul(r[3], f[2])),
      FracSub(FracMul(r[3], f[1]), FracMul(r[1], f[3])),
      FracSub(FracMul(r[1], f[2]), FracMul(r[2], f[1]))>>

\* The scan of the per-panel lookups taken without the running offset.
LookupScanWithoutOffset(surfaces, s, p, offset) ==
    IF \E k \in DOMAIN surfaces : surfaces[k] = s THEN p ELSE -1

\* The scan of the per-panel lookups over non_wake_surfaces: the index
\* offset + panel at the first entry that is the surface asked for, or -1 when
\* the loop ends without finding it.
RECURSIVE LookupScan(_, _, _, _)
LookupScan(surfaces, s, p, offset) ==
    IF surfaces = << >> THEN -1
    ELSE IF Head(surfaces) = s THEN offset + p
    ELSE LookupScan(Tail(surfaces), s, p, offset + NPanels(Head(surfaces)))

\* Solver::surface_velocity_potential
SurfaceVelocityPotential(s, p) ==
    LET g == LookupScan(non_wake_surfaces, s, p, 0)
    IN  IF g < 0 THEN <<Frac(0, 1)>> ELSE <<Frac(surface_velocity_potentials[g], 1)>>

\* Solver::surface_velocity
SurfaceVelocity(s, p) ==
    LET g == LookupScan(non_wake_surfaces, s, p, 0)
    IN  IF g < 0 THEN FracVector(Zero3) ELSE FracVector(surface_velocities[g])

\* Solver::pressure_coefficient
PressureCoefficient(s, p) ==
    LET g == LookupScan(non_wake_surfaces, s, p, 0)
    IN  IF g < 0 THEN <<Frac(0, 1)>> ELSE <<pressure_coefficients[g]>>

\* BoundaryLayer::friction (DummyBoundaryLayer returns the zero vector).
Friction(blow, s, p) == IF HasBoundaryLayer(s) THEN <<blow[s][p], 0, 0>> ELSE Zero3

\* q = 0.5 * fluid_density * compute_reference_velocity_squared(body)
DynamicPressure(b) == Frac(fluid_density * ComputeReferenceVelocitySquared(b), 2)

\* q * surface_area * pressure_coefficients(offset + i) * normal of one panel.
PanelPressureForce(b, cp, g) ==
    LET s == SurfaceOf(g)
        i == g - OffsetOf(g)
        scalar == FracMul(FracMul(DynamicPressure(b), Frac(PanelSurfaceArea(s, i), 1)), cp[g])
    IN  <<FracMul(scalar, Frac(PanelNormal(s, i)[1], 1)),
          FracMul(scalar, Frac(PanelNormal(s, i)[2], 1)),
          FracMul(scalar, Frac(PanelNormal(s, i)[3], 1))>>

\* The loops of force over the first n global panels: F += pressure force,
\* F += friction, for the panels of the surfaces of the body.
RECURSIVE ForceSum(_, _, _)
ForceSum(b, cp, n) ==
    IF n <= 0 THEN FracVector(Zero3)
    ELSE IF surface_id_to_body[SurfaceOf(n - 1)] # b THEN ForceSum(b, cp, n - 1)
    ELSE FracVAdd(FracVAdd(ForceSum(b, cp, n - 1), PanelPressureForce(b, cp, n - 1)),
                  FracVector(Friction(blowing, SurfaceOf(n - 1), n - 1 - OffsetOf(n - 1))))

\* The loops of moment: M += r.cross(F), F the pressure force plus the friction
\* of the panel and r its collocation point relative to x.
RECURSIVE MomentSum(_, _, _, _)
MomentSum(b, x, cp, n) ==
    IF n <= 0 THEN FracVector(Zero3)
    ELSE IF surface_id_to_body[SurfaceOf(n - 1)] # b THEN MomentSum(b, x, cp, n - 1)
    ELSE LET s == SurfaceOf(n - 1)
             i == n - 1 - OffsetOf(n - 1)
             F == FracVAdd(PanelPressureForce(b, cp, n - 1), FracVector(Friction(blowing, s, i)))
             r == FracVector(VSub(PanelCollocationPoint(s, i), x))
         IN  FracVAdd(MomentSum(b, x, cp, n - 1), FracCross(r, F))

\* The point moments are taken about, and the point the field is asked at.
MomentReference == <<0, 0, 0>>

FieldPoint == <<1, 0, 0>>

\* Values set_fluid_density is called with.
FluidDensityChoices == {2}

\* A post-processing call returns: last_call holds what was asked and the value.
Answer(op, subject, panel, value) ==
    [Call(op, "value") EXCEPT !.subject = subject, !.panel = panel, !.value = value]

\* The driver reads a result when the stepping is over, and may read the same
\* result again; it sets the fluid density and then asks for the forces and
\* moments, which alone depend on it.
Reading(op, subject, panel) ==
    /\ Alive
    /\ op \in {"force", "moment"} <=> fluid_density # 0
    /\ last_call.op \in (PostProcessingOps \ {"set_fluid_density"}) =>
            /\ last_call.op = op
            /\ last_call.subject = subject
            /\ last_call.panel = panel

\* force turning the stored pressure coefficients into pressures in place
\* before it sums them.
ForceScalingInPlace(b) ==
    /\ Reading("force", b, 0)
    /\ InBodies(b)
    /\ pressure_coefficients' =
            Stored([g \in DOMAIN pressure_coefficients |->
                        FracMul(DynamicPressure(b), pressure_coefficients[g])])
    /\ last_call' = Answer("force", b, 0,
                           ForceSum(b, pressure_coefficients', n_non_wake_panels))
    /\ UNCHANGED <<bodies, non_wake_surfaces, surface_id_to_body, n_non_wake_panels,
                   doublet_coefficients, source_coefficients, surface_velocity_potentials,
                   previous_surface_velocity_potentials, surface_velocities,
                   freestream_velocity, fluid_density, wake_vars, blowing, param_vars, ub>>

\* Solver::force, Solver::moment, Solver::velocity, Solver::velocity_potential
\* and the per-panel lookups are const member functions: they read the
\* coefficient vectors and assign no member.
Force(b) ==
    /\ Reading("force", b, 0)
    /\ InBodies(b)
    /\ last_call' = Answer("force", b, 0, ForceSum(b, pressure_coefficients, n_non_wake_panels))
    /\ UNCHANGED <<solver_vars, wake_vars, blowing, param_vars, ub>>

Moment(b) ==
    /\ Reading("moment", b, 0)
    /\ InBodies(b)
    /\ last_call' = Answer("moment", b, 0,
                           MomentSum(b, MomentReference, pressure_coefficients, n_non_wake_panels))
    /\ UNCHANGED <<solver_vars, wake_vars, blowing, param_vars, ub>>

\* One writer.write call of Solver::log for a non-lifting or lifting surface:
\* the slices of the global vectors at the running offset, the node and panel
\* offsets saved so far, and the three counters advanced.
LogSurface(st, s) ==
    LET slice(vector) == Stored([i \in 0..(NPanels(s) - 1) |-> vector[st.offset + i]])
    IN  [offset |-> st.offset + NPanels(s),
         save_node_offset |-> st.save_node_offset + NNodes(s),
         save_panel_offset |-> st.save_panel_offset + NPanels(s),
         writes |-> Append(st.writes,
                           [surface |-> s,
                            node_offset |-> st.save_node_offset,
                            panel_offset |-> st.save_panel_offset,
                            doublets |-> slice(doublet_coefficients),
                            sources |-> slice(source_coefficients),
                            pressures |-> slice(pressure_coefficients)])]

\* The writer.write call for the wake of lifting surface l: the wake's own
\* doublet coefficients, node offset 0 and the panel offset saved so far.
LogWake(st, l) ==
    [offset |-> st.offset,
     save_node_offset |-> st.save_node_offset + WakeNNodes(wake_nodes, l),
     save_panel_offset |-> st.save_panel_offset + WakeNPanels(wake_doublet_coefficients, l),
     writes |-> Append(st.writes,
                       [surface |-> WakeId(l),
                        node_offset |-> 0,
                        panel_offset |-> st.save_panel_offset,
                        doublets |-> wake_doublet_coefficients[l],
                        sources |-> << >>,
                        pressures |-> << >>])]

RECURSIVE LogNonLiftingSurfaces(_, _)
LogNonLiftingSurfaces(st, surfaces) ==
    IF surfaces = << >> THEN st
    ELSE LogNonLiftingSurfaces(LogSurface(st, Head(surfaces)), Tail(surfaces))

RECURSIVE LogLiftingSurfaces(_, _)
LogLiftingSurfaces(st, surfaces) ==
    IF surfaces = << >> THEN st
    ELSE LogLiftingSurfaces(LogWake(LogSurface(st, Head(surfaces)), Head(surfaces)),
                            Tail(surfaces))

RECURSIVE LogBodies(_, _)
LogBodies(st, bs) ==
    IF bs = << >> THEN st
    ELSE LogBodies(LogLiftingSurfaces(LogNonLiftingSurfaces(st, NonLiftingSurfaces(Head(bs))),
                                      LiftingSurfaces(Head(bs))),
                   Tail(bs))

\* Solver::log hands every surface and wake to the writer and assigns no
\* member; last_call.writes records the writer.write calls in order.
Log ==
    /\ Reading("log", "none", 0)
    /\ last_call' =
            [Call("log", "void") EXCEPT
                !.writes = LogBodies([offset |-> 0, save_node_offset |-> 0,
                                      save_panel_offset |-> 0, writes |-> << >>],
                                     bodies).writes]
    /\ UNCHANGED <<solver_vars, wake_vars, blowing, param_vars, ub>>

FieldQuery ==
    \/ /\ Reading("velocity", "none", 0)
       /\ last_call' = Answer("velocity", "none", 0,
                              FracVector(Velocity(FieldPoint, doublet_coefficients,
                                                  source_coefficients, wake_doublet_coefficients,
                                                  wake_nodes)))
       /\ UNCHANGED <<solver_vars, wake_vars, blowing, param_vars, ub>>
    \/ /\ Reading("velocity_potential", "none", 0)
       /\ last_call' = Answer("velocity_potential", "none", 0,
                              <<Frac(VelocityPotential(FieldPoint, doublet_coefficients,
                                                       source_coefficients,
                                                       wake_doublet_coefficients), 1)>>)
       /\ UNCHANGED <<solver_vars, wake_vars, blowing, param_vars, ub>>

\* The three per-panel lookups, asked for a panel of a surface that may or may
\* not be registered, or for a panel of a wake.
PanelLookup(s) ==
    \E p \in 0..(NPanels(s) - 1) :
        \/ /\ Reading("surface_velocity_potential", s, p)
           /\ last_call' = Answer("surface_velocity_potential", s, p, SurfaceVelocityPotential(s, p))
           /\ UNCHANGED <<solver_vars, wake_vars, blowing, param_vars, ub>>
        \/ /\ Reading("surface_velocity", s, p)
           /\ last_call' = Answer("surface_velocity", s, p, SurfaceVelocity(s, p))
           /\ UNCHANGED <<solver_vars, wake_vars, blowing, param_vars, ub>>
        \/ /\ Reading("pressure_coefficient", s, p)
           /\ last_call' = Answer("pressure_coefficient", s, p, PressureCoefficient(s, p))
           /\ UNCHANGED <<solver_vars, wake_vars, blowing, param_vars, ub>>

Next ==
    \/ \E b \in BodyIds : AddBody(b)
    \/ \E v \in FreestreamChoices : SetFreestreamVelocity(v)
    \/ \E value \in FluidDensityChoices : SetFluidDensity(value)
    \/ InitializeWakes
    \/ Solve
    \/ SolveOutOfRange
    \/ SolveUninitialisedRead
    \/ Propagate
    \/ UpdateWakes
    \/ UpdateWakesOutOfRange
    \/ \E b \in BodyIds : Force(b)
    \/ \E b \in BodyIds : Moment(b)
    \/ Log
    \/ FieldQuery
    \/ \E s \in SurfaceIds \cup {WakeId(l) : l \in LiftingSurfaceIds} : PanelLookup(s)

Spec == Init /\ [][Next]_vars

\* ------------------------------------------------------------------ properties

\* offset(S): the offset of a registered surface in the N-sized vectors, as the
\* scan of the per-panel lookups finds it.
OffsetOfSurface(s) ==
    OffsetAt(non_wake_surfaces, CHOOSE k \in DOMAIN non_wake_surfaces : non_wake_surfaces[k] = s)

\* The index of the first panel of the newest strip of a wake.
NewestStrip(l) == WakeNPanels(wake_doublet_coefficients, l) - NSpanwisePanels(l)

SolveReturnedTrue == last_call.op = "solve" /\ last_call.ret = "true"

\* C1: after every solve call that returns true, for every registered lifting
\* surface and every spanwise station k, the newest-strip wake doublet
\* coefficient k equals the stored doublet coefficient of the upper
\* trailing-edge panel minus that of the lower one, both taken at the surface's
\* global offset.
C1_KuttaClosure ==
    SolveReturnedTrue =>
        \A l \in RegisteredLiftingIds : \A k \in 0..(NSpanwisePanels(l) - 1) :
            wake_doublet_coefficients[l][NewestStrip(l) + k]
                = doublet_coefficients[OffsetOfSurface(l) + TrailingEdgeUpperPanel(l, k)]
                  - doublet_coefficients[OffsetOfSurface(l) + TrailingEdgeLowerPanel(l, k)]

\* A successful solve whose boundary-layer loop ran twice and left a nonzero
\* newest strip on a wake that holds an older strip as well.
C1_Witness ==
    /\ SolveReturnedTrue
    /\ last_call.linear_solves >= 2
    /\ \E l \in RegisteredLiftingIds :
            /\ NewestStrip(l) > 0
            /\ \E k \in 0..(NSpanwisePanels(l) - 1) :
                    wake_doublet_coefficients[l][NewestStrip(l) + k] # 0

\* The registration order add_body is to produce: bodies in add order, the
\* non-lifting surfaces of a body before its lifting surfaces.
RECURSIVE RegistrationOrder(_)
RegistrationOrder(bs) ==
    IF bs = << >> THEN << >>
    ELSE NonLiftingSurfaces(Head(bs)) \o LiftingSurfaces(Head(bs)) \o RegistrationOrder(Tail(bs))

\* C2: after any sequence of add_body calls the surfaces are registered in add
\* order (non-lifting before lifting), every registered surface ends at or
\* before N = n_non_wake_panels, and the offsets are strictly increasing.
C2_Offsets ==
    /\ non_wake_surfaces = RegistrationOrder(bodies)
    /\ \A k \in DOMAIN non_wake_surfaces :
            /\ OffsetAt(non_wake_surfaces, k) + NPanels(non_wake_surfaces[k]) <= n_non_wake_panels
            /\ \A j \in DOMAIN non_wake_surfaces :
                    j < k => OffsetAt(non_wake_surfaces, j) < OffsetAt(non_wake_surfaces, k)

\* Two bodies are registered, four surfaces in all.
C2_Witness == Len(bodies) = 2 /\ Len(non_wake_surfaces) = 4

\* C3: after every add_body call the five coefficient vectors have length N,
\* surface_velocities has N rows, and every entry is zero.
C3_AddBodyZeroes ==
    last_call.op = "add_body" =>
        /\ doublet_coefficients = [i \in 0..(n_non_wake_panels - 1) |-> 0]
        /\ source_coefficients = [i \in 0..(n_non_wake_panels - 1) |-> 0]
        /\ surface_velocity_potentials = [i \in 0..(n_non_wake_panels - 1) |-> 0]
        /\ previous_surface_velocity_potentials = [i \in 0..(n_non_wake_panels - 1) |-> 0]
        /\ pressure_coefficients = [i \in 0..(n_non_wake_panels - 1) |-> [n |-> 0, d |-> 1]]
        /\ surface_velocities = [i \in 0..(n_non_wake_panels - 1) |-> <<0, 0, 0>>]

\* add_body of a second body after a solve that left nonzero results (its
\* nonzero newest wake strip is still there).
C3_Witness ==
    /\ last_call.op = "add_body"
    /\ Len(bodies) = 2
    /\ \E l \in LiftingSurfaceIds : \E i \in DOMAIN wake_doublet_coefficients[l] :
            wake_doublet_coefficients[l][i] # 0

SolveReturned == last_call.op = "solve" /\ last_call.ret \in {"true", "false"}

InTrace(phase) == \E i \in DOMAIN last_call.trace : last_call.trace[i] = phase

\* The members solve writes besides source_coefficients, as they are now.
MembersNow ==
    [mu |-> doublet_coefficients, wdc |-> wake_doublet_coefficients,
     sv |-> surface_velocities, phi |-> surface_velocity_potentials,
     cp |-> pressure_coefficients, prev |-> previous_surface_velocity_potentials,
     blow |-> blowing]

\* C4: solve returns false exactly when a linear solve of the call reported
\* non-success; the failing linear solve is then the last thing the call did,
\* every member but source_coefficients has the value it had when that linear
\* solve was entered, and source_coefficients hold the sources assembled for it.
C4_FailedLinearSolve ==
    SolveReturned =>
        /\ last_call.ret = "false" <=> InTrace("linear_solve_failed")
        /\ InTrace("linear_solve_failed") =>
                /\ last_call.trace[Len(last_call.trace)] = "linear_solve_failed"
                /\ last_call.info # "Success"
                /\ MembersNow = last_call.pre
                /\ source_coefficients = last_call.rhs
                /\ source_coefficients
                       = SourceDistribution(TRUE, wake_doublet_coefficients, blowing)

\* A solve that failed in its second pass, on sources that differ from the
\* zero vector, with doublet coefficients left by the first pass.
C4_Witness ==
    /\ last_call.op = "solve"
    /\ last_call.ret = "false"
    /\ last_call.linear_solves = 2
    /\ \E i \in DOMAIN source_coefficients : source_coefficients[i] # 0
    /\ \E i \in DOMAIN doublet_coefficients : doublet_coefficients[i] # 0

\* The loop of the call ended at the cap: its last linear solve succeeded, was
\* not found converged, and was the (max_boundary_layer_iterations + 2)-th.
EndedAtCap ==
    /\ last_call.op = "solve"
    /\ last_call.info = "Success"
    /\ ~last_call.converged
    /\ last_call.linear_solves = max_boundary_layer_iterations + 2

\* C5: when the boundary-layer loop ends at the iteration cap without
\* convergence, solve goes on to the pressure phase and returns true, and
\* doublet_coefficients is the result of the last linear solve of the call.
C5_CapIsNotFailure ==
    EndedAtCap =>
        /\ last_call.ret = "true"
        /\ InTrace("pressure")
        /\ doublet_coefficients = last_call.solution

\* A solve that ended at the cap with a nonzero doublet distribution.
C5_Witness ==
    /\ EndedAtCap
    /\ last_call.exit = "capped"
    /\ \E i \in DOMAIN doublet_coefficients : doublet_coefficients[i] # 0

\* The phase that may directly follow phase a in one solve call.
PhaseFollows(a, b) ==
    LET after_loop == IF convect_wake THEN "sources_without_wake" ELSE "pressure"
    IN  CASE a = "sources_with_wake" -> b = "matrices"
          [] a = "matrices" -> b \in {"linear_solve", "linear_solve_failed"}
          [] a = "linear_solve" -> b = "kutta"
          [] a = "kutta" -> b = "surface_velocities"
          [] a = "surface_velocities" -> b \in {"boundary_layers", after_loop}
          [] a = "boundary_layers" -> b \in {"sources_with_wake", after_loop}
          [] a = "sources_without_wake" -> b = "pressure"
          [] a = "pressure" -> b = "propagate"
          [] OTHER -> FALSE

\* The phases of the last solve call ran in the order of PhaseFollows, from the
\* source assembly to a failed linear solve or to the pressure or propagate
\* phase; after a converged or capped pass no boundary layer was recalculated.
PhasesInOrder ==
    LET trace == last_call.trace
    IN  SolveReturned =>
          /\ trace[1] = "sources_with_wake"
          /\ trace[Len(trace)] \in {"linear_solve_failed", "pressure", "propagate"}
          /\ \A i \in 1..(Len(trace) - 1) : PhaseFollows(trace[i], trace[i + 1])
          /\ \A i \in 1..(Len(trace) - 1) :
                (/\ trace[i] = "surface_velocities"
                 /\ \A j \in (i + 1)..Len(trace) : trace[j] # "surface_velocities"
                 /\ ~InTrace("linear_solve_failed")
                 /\ \/ last_call.converged
                    \/ last_call.linear_solves > max_boundary_layer_iterations + 1)
                => trace[i + 1] # "boundary_layers"
          /\ ~InTrace("update_wakes")

\* C6: within one solve call the phases run in strict sequence (sources with
\* wake, matrices, linear solve, Kutta closure, surface velocities, boundary
\* layers and loop only if neither converged nor capped, then sources without
\* wake, pressure, propagate), and solve moves no wake node and adds no layer.
C6_PhaseOrder ==
    /\ []PhasesInOrder
    /\ [][(last_call'.op = "solve" /\ last_call' # last_call)
              => /\ wake_nodes' = wake_nodes
                 /\ \A l \in LiftingSurfaceIds :
                        DOMAIN wake_doublet_coefficients'[l] = DOMAIN wake_doublet_coefficients[l]]_vars

\* A successful convecting solve with two passes of the loop and a propagate.
C6_Witness ==
    /\ SolveReturnedTrue
    /\ convect_wake
    /\ last_call.linear_solves = 2
    /\ InTrace("boundary_layers")
    /\ InTrace("sources_without_wake")
    /\ InTrace("propagate")
\* C7: solve writes only the newest strip of each wake's doublet coefficients;
\* every other call (update_wakes, force, moment, log, the field queries, and
\* the rest) leaves every wake doublet coefficient that exists as it is.
C7_OlderStripsFrozen ==
    [][\A l \in LiftingSurfaceIds : \A i \in DOMAIN wake_doublet_coefficients[l] :
          /\ i \in DOMAIN wake_doublet_coefficients'[l]
          /\ wake_doublet_coefficients'[l][i] # wake_doublet_coefficients[l][i]
                => /\ last_call'.op = "solve"
                   /\ i >= WakeNPanels(wake_doublet_coefficients, l) - NSpanwisePanels(l)]_vars

\* After a solve on a wake of two strips or more: an older strip holds a
\* nonzero coefficient that differs from the one the solve wrote at the same
\* station of the newest strip.
C7_Witness ==
    /\ SolveReturnedTrue
    /\ \E l \in RegisteredLiftingIds : \E k \in 0..(NSpanwisePanels(l) - 1) :
            /\ NewestStrip(l) >= NSpanwisePanels(l)
            /\ wake_doublet_coefficients[l][k] # 0
            /\ wake_doublet_coefficients[l][NewestStrip(l) + k] # wake_doublet_coefficients[l][k]

\* The wake sizes at any time: panels in whole strips, one node layer more
\* than strips.
WholeStrips ==
    \A l \in LiftingSurfaceIds :
        /\ WakeNPanels(wake_doublet_coefficients, l) % NSpanwisePanels(l) = 0
        /\ WakeNNodes(wake_nodes, l) > 0 =>
                WakeNNodes(wake_nodes, l) * NSpanwisePanels(l)
                    = (WakeNPanels(wake_doublet_coefficients, l) + NSpanwisePanels(l))
                      * NSpanwiseNodes(l)

\* C8, amended: an initialize_wakes call leaves every wake that held no layer
\* with exactly two node layers and one strip, and adds two layers and two
\* strips to a wake that held some; n_panels is a multiple of
\* n_spanwise_panels at any time; a convecting update_wakes appends exactly
\* one layer to every wake, a static one none; in static mode only
\* initialize_wakes changes the number of strips, so a wake initialised once
\* keeps one strip.
C8_WakeLayersFromEmpty ==
    /\ []WholeStrips
    /\ [][(last_call'.op = "initialize_wakes" /\ last_call' # last_call) =>
              \A l \in RegisteredLiftingIds :
                  /\ WakeNNodes(wake_nodes', l)
                        = WakeNNodes(wake_nodes, l) + 2 * NSpanwiseNodes(l)
                  /\ WakeNPanels(wake_doublet_coefficients', l)
                        = WakeNPanels(wake_doublet_coefficients, l)
                          + (IF WakeNNodes(wake_nodes, l) = 0 THEN 1 ELSE 2) * NSpanwisePanels(l)
                  /\ WakeNNodes(wake_nodes, l) = 0 =>
                        /\ WakeNNodes(wake_nodes', l) = 2 * NSpanwiseNodes(l)
                        /\ WakeNPanels(wake_doublet_coefficients', l) = NSpanwisePanels(l)]_vars
    /\ [][(last_call'.op = "update_wakes" /\ last_call'.ret = "void") =>
              \A l \in RegisteredLiftingIds :
                  /\ WakeNPanels(wake_doublet_coefficients', l)
                        = WakeNPanels(wake_doublet_coefficients, l)
                          + (IF convect_wake THEN NSpanwisePanels(l) ELSE 0)
                  /\ WakeNNodes(wake_nodes', l)
                        = WakeNNodes(wake_nodes, l)
                          + (IF convect_wake THEN NSpanwiseNodes(l) ELSE 0)]_vars
    /\ [][(~convect_wake /\ last_call'.op # "initialize_wakes") =>
              \A l \in LiftingSurfaceIds :
                  WakeNPanels(wake_doublet_coefficients', l)
                      = WakeNPanels(wake_doublet_coefficients, l)]_vars

\* The wake sizes the statement gives: panels in whole strips, one node layer
\* more than strips; two layers and one strip right after initialize_wakes;
\* one strip in static mode at any time.
WakeSizes ==
    /\ WholeStrips
    /\ \A l \in LiftingSurfaceIds :
            (~convect_wake /\ WakeNNodes(wake_nodes, l) > 0) =>
                    WakeNPanels(wake_doublet_coefficients, l) = NSpanwisePanels(l)
    /\ last_call.op = "initialize_wakes" =>
            \A l \in RegisteredLiftingIds :
                /\ WakeNNodes(wake_nodes, l) = 2 * NSpanwiseNodes(l)
                /\ WakeNPanels(wake_doublet_coefficients, l) = NSpanwisePanels(l)

\* C8 as stated: after initialize_wakes every wake holds two node layers and
\* one strip; from then on n_panels is a multiple of n_spanwise_panels; a
\* convecting update_wakes appends exactly one layer to every wake, a static
\* one none and the wake keeps one strip.
C8_WakeLayers ==
    /\ []WakeSizes
    /\ [][(last_call'.op = "update_wakes" /\ last_call'.ret = "void") =>
              \A l \in RegisteredLiftingIds :
                  /\ WakeNPanels(wake_doublet_coefficients', l)
                        = WakeNPanels(wake_doublet_coefficients, l)
                          + (IF convect_wake THEN NSpanwisePanels(l) ELSE 0)
                  /\ WakeNNodes(wake_nodes', l)
                        = WakeNNodes(wake_nodes, l)
                          + (IF convect_wake THEN NSpanwiseNodes(l) ELSE 0)]_vars

\* Right after an initialize_wakes call that found one wake empty and another
\* one already initialised: the first holds two layers and one strip, the
\* other four layers and three strips.
C8_Witness ==
    /\ last_call.op = "initialize_wakes"
    /\ \E l \in RegisteredLiftingIds :
            /\ WakeNNodes(wake_nodes, l) = 2 * NSpanwiseNodes(l)
            /\ WakeNPanels(wake_doublet_coefficients, l) = NSpanwisePanels(l)
    /\ \E l \in RegisteredLiftingIds :
            /\ WakeNNodes(wake_nodes, l) = 4 * NSpanwiseNodes(l)
            /\ WakeNPanels(wake_doublet_coefficients, l) = 3 * NSpanwisePanels(l)

\* The body a registered surface belongs to.
BodyOfSurface(s) == surface_id_to_body[s]

\* C9: with unsteady_bernoulli disabled or dt = 0 the pressure coefficient
\* solve stores for a panel is 1 - |surface velocity|^2 / V_ref^2: it is fixed
\* by the panel's surface velocity and the body's reference velocity, whatever
\* previous_surface_velocity_potentials holds.
C9_SteadyPressure ==
    (SolveReturnedTrue /\ (~unsteady_bernoulli \/ time_step = 0)) =>
        \A k \in DOMAIN non_wake_surfaces : \A p \in 0..(NPanels(non_wake_surfaces[k]) - 1) :
            LET g == OffsetAt(non_wake_surfaces, k) + p
                v_ref_squared ==
                    SquaredNorm(VSub(BodyVelocity(BodyOfSurface(non_wake_surfaces[k])),
                                     freestream_velocity))
            IN  pressure_coefficients[g]
                    = Frac(v_ref_squared - SquaredNorm(surface_velocities[g]), v_ref_squared)

\* A solve with unsteady_bernoulli enabled and dt = 0 that did not propagate,
\* on a state whose snapshot differs from the potentials it computed.
C9_Witness ==
    /\ SolveReturnedTrue
    /\ unsteady_bernoulli
    /\ time_step = 0
    /\ ~InTrace("propagate")
    /\ \E g \in DOMAIN surface_velocity_potentials :
            /\ surface_velocity_potentials[g] # previous_surface_velocity_potentials[g]
            /\ pressure_coefficients[g].d # 0

\* C10: after a successful solve, with wake convection enabled the stored
\* source coefficients are apparent velocity . normal - blowing velocity of
\* each panel (no wake doublet coefficient enters); with wake convection
\* disabled they are the ones the last linear solve had as right-hand side.
C10_StoredSources ==
    SolveReturnedTrue =>
        IF convect_wake
        THEN \A k \in DOMAIN non_wake_surfaces : \A p \in 0..(NPanels(non_wake_surfaces[k]) - 1) :
                LET s == non_wake_surfaces[k]
                IN  source_coefficients[OffsetAt(non_wake_surfaces, k) + p]
                        = Dot(VSub(PanelKinematicVelocity(BodyOfSurface(s), s, p),
                                   freestream_velocity),
                              PanelNormal(s, p))
                          - (IF HasBoundaryLayer(s) THEN blowing[s][p] ELSE 0)
        ELSE source_coefficients = last_call.rhs

\* A convecting solve on a wake with a nonzero older strip: the stored sources
\* are not the ones the last linear solve was given.
C10_Witness ==
    /\ SolveReturnedTrue
    /\ convect_wake
    /\ source_coefficients # last_call.rhs
    /\ \E l \in RegisteredLiftingIds : \E i \in 0..(NewestStrip(l) - 1) :
            wake_doublet_coefficients[l][i] # 0
\* The per-panel lookups, and whether a surface is in non_wake_surfaces.
LookupOps == {"surface_velocity_potential", "surface_velocity", "pressure_coefficient"}

Registered(s) == \E k \in DOMAIN non_wake_surfaces : non_wake_surfaces[k] = s

\* The entry of the vector a lookup reads, at global index g, and the zero of
\* its type.
StoredEntry(op, g) ==
    CASE op = "surface_velocity_potential" -> <<[n |-> surface_velocity_potentials[g], d |-> 1]>>
      [] op = "surface_velocity" -> <<[n |-> surface_velocities[g][1], d |-> 1],
                                      [n |-> surface_velocities[g][2], d |-> 1],
                                      [n |-> surface_velocities[g][3], d |-> 1]>>
      [] op = "pressure_coefficient" -> <<pressure_coefficients[g]>>

ZeroOfType(op) ==
    IF op = "surface_velocity"
    THEN <<[n |-> 0, d |-> 1], [n |-> 0, d |-> 1], [n |-> 0, d |-> 1]>>
    ELSE <<[n |-> 0, d |-> 1]>>

\* The members, wakes, boundary layers and settings are left as they are.
NothingWritten ==
    UNCHANGED <<bodies, non_wake_surfaces, surface_id_to_body, n_non_wake_panels,
                doublet_coefficients, source_coefficients, surface_velocity_potentials,
                previous_surface_velocity_potentials, pressure_coefficients,
                surface_velocities, freestream_velocity, fluid_density,
                wake_nodes, wake_doublet_coefficients, blowing,
                convect_wake, unsteady_bernoulli, marcov_surface_velocity, time_step>>

\* C11: a per-panel lookup asked for a surface that is not registered (an
\* unregistered surface or a wake) returns the zero of its type; asked for a
\* registered surface S and one of its panels p it returns the entry stored at
\* offset(S) + p; and it changes no solver state.
C11_Lookups ==
    /\ [](last_call.op \in LookupOps =>
            last_call.value = IF Registered(last_call.subject)
                              THEN StoredEntry(last_call.op,
                                               OffsetOfSurface(last_call.subject) + last_call.panel)
                              ELSE ZeroOfType(last_call.op))
    /\ [][last_call'.op \in LookupOps => NothingWritten]_vars

\* A lookup of the last panel of a lifting surface registered behind another
\* surface returned a nonzero pressure coefficient that is not the one stored
\* at the panel's local index.
C11_Witness ==
    /\ last_call.op = "pressure_coefficient"
    /\ last_call.subject \in LiftingSurfaceIds
    /\ Registered(last_call.subject)
    /\ OffsetOfSurface(last_call.subject) > 0
    /\ last_call.value[1].n # 0
    /\ last_call.value[1] # pressure_coefficients[last_call.panel]

\* The calls that return a value computed from the solver state.
QueryOps == PostProcessingOps \ {"set_fluid_density", "log"}

\* C12: force, moment, velocity, velocity_potential and the per-panel lookups
\* write nothing, and a call repeated with nothing written in between returns
\* the value it returned before.
C12_PureReads ==
    [][last_call'.op \in QueryOps =>
          /\ NothingWritten
          /\ (/\ last_call.op = last_call'.op
              /\ last_call.subject = last_call'.subject
              /\ last_call.panel = last_call'.panel) => last_call'.value = last_call.value]_vars

\* force returned a finite nonzero vector for a body with a nonzero density set.
C12_Witness ==
    /\ last_call.op = "force"
    /\ fluid_density # 0
    /\ last_call.value[3].n # 0
    /\ last_call.value[3].d # 0
\* Neither the freestream nor any registered body moves.
FluidAtRest ==
    /\ freestream_velocity = Zero3
    /\ \A k \in DOMAIN bodies : BodyVelocity(bodies[k]) = Zero3

AllZero(v) == \A g \in DOMAIN v : v[g] = 0

\* C13: with the freestream velocity zero and every body velocity zero, after
\* a solve that returned true all doublet and source coefficients are zero and
\* every pressure coefficient is the finite value zero.
C13_FluidAtRest ==
    (SolveReturnedTrue /\ FluidAtRest /\ n_non_wake_panels > 0) =>
        /\ AllZero(doublet_coefficients)
        /\ AllZero(source_coefficients)
        /\ \A g \in DOMAIN pressure_coefficients :
                pressure_coefficients[g] = [n |-> 0, d |-> 1]

\* What the code does in that case: the doublet and source coefficients are
\* zero, and every pressure coefficient is 1 - 0/0, not a number.
C13_NotANumber ==
    (SolveReturnedTrue /\ FluidAtRest /\ n_non_wake_panels > 0) =>
        /\ AllZero(doublet_coefficients)
        /\ AllZero(source_coefficients)
        /\ \A g \in DOMAIN pressure_coefficients :
                pressure_coefficients[g] = [n |-> 0, d |-> 0]
\* The square of the Euclidean norm of new - current.
IncrementSquared(pass) ==
    SumInt([i \in DOMAIN pass.new |-> (pass.new[i] - pass.current[i])
                                       * (pass.new[i] - pass.current[i])], Size(pass.new))

\* C14: in every pass of the boundary-layer loop that got to the convergence
\* test, iteration 0 is never declared converged, and an iteration from 1 on is
\* declared converged exactly when the Euclidean norm of (new - current) is
\* below boundary_layer_iteration_tolerance; the passes count from 0, and a pass
\* declared converged is the last one.
C14_ConvergenceTest ==
    last_call.op = "solve" =>
        \A i \in DOMAIN last_call.passes :
            LET pass == last_call.passes[i]
            IN  /\ pass.iteration = i - 1
                /\ pass.converged <=>
                        (/\ pass.iteration >= 1
                         /\ IncrementSquared(pass) < boundary_layer_iteration_tolerance
                                                      * boundary_layer_iteration_tolerance)
                /\ pass.converged => (i = Len(last_call.passes) /\ last_call.exit = "converged")

\* A solve whose first linear solve handed back the nonzero vector left by the
\* solve before it: the first pass was not declared converged, and the second
\* pass, with the same vector again, was.
C14_Witness ==
    /\ last_call.op = "solve"
    /\ Len(last_call.passes) = 2
    /\ last_call.passes[1].new = last_call.passes[1].current
    /\ \E g \in DOMAIN last_call.passes[1].new : last_call.passes[1].new[g] # 0
    /\ ~last_call.passes[1].converged
    /\ last_call.passes[2].converged
LinearSolveSteps == {"linear_solve", "linear_solve_failed"}

\* C15: one solve call performs at most max_boundary_layer_iterations + 2
\* linear solves and calls recalculate on each non-trivial boundary layer at
\* most max_boundary_layer_iterations + 1 times, and every recalculation of
\* the call is followed by a linear solve of the call.
C15_LoopTerminates ==
    last_call.op = "solve" =>
        /\ last_call.linear_solves <= max_boundary_layer_iterations + 2
        /\ last_call.linear_solves =
                Cardinality({i \in DOMAIN last_call.trace : last_call.trace[i] \in LinearSolveSteps})
        /\ last_call.recalculations <= max_boundary_layer_iterations + 1
        /\ HaveBoundaryLayer =>
                /\ last_call.recalculations =
                        Cardinality({i \in DOMAIN last_call.trace :
                                        last_call.trace[i] = "boundary_layers"})
                /\ \A i \in DOMAIN last_call.trace :
                        last_call.trace[i] = "boundary_layers" =>
                            \E j \in DOMAIN last_call.trace :
                                j > i /\ last_call.trace[j] \in LinearSolveSteps
        /\ ~HaveBoundaryLayer => last_call.recalculations = 0

\* A solve with a non-trivial boundary layer that went to the bounds: it made
\* max_boundary_layer_iterations + 2 linear solves and
\* max_boundary_layer_iterations + 1 recalculations.
C15_Witness ==
    /\ last_call.op = "solve"
    /\ HaveBoundaryLayer
    /\ last_call.linear_solves = max_boundary_layer_iterations + 2
    /\ last_call.recalculations = max_boundary_layer_iterations + 1
    /\ \E s \in DOMAIN blowing : \E p \in DOMAIN blowing[s] : blowing[s][p] # 0
\* Every registered surface carries the null boundary layer.
OnlyDummyBoundaryLayers ==
    \A k \in DOMAIN non_wake_surfaces : ~HasBoundaryLayer(non_wake_surfaces[k])

TimesInTrace(phase) ==
    Cardinality({i \in DOMAIN last_call.trace : last_call.trace[i] = phase})

\* C16: when every registered surface carries the null boundary layer, a
\* solve that returns true made exactly one pass of the loop (one source
\* assembly, one matrix assembly, one linear solve, one Kutta closure, one
\* surface-velocity computation) and called recalculate on no boundary layer.
C16_OnePassWithoutBoundaryLayers ==
    (SolveReturnedTrue /\ OnlyDummyBoundaryLayers) =>
        /\ \A phase \in {"sources_with_wake", "matrices", "linear_solve", "kutta",
                          "surface_velocities"} : TimesInTrace(phase) = 1
        /\ last_call.linear_solves = 1
        /\ Len(last_call.passes) = 1
        /\ last_call.recalculations = 0
        /\ last_call.exit = "no_boundary_layer"

\* A solve of a body whose surfaces all carry the null boundary layer returned
\* true with a nonzero doublet distribution.
C16_Witness ==
    /\ SolveReturnedTrue
    /\ OnlyDummyBoundaryLayers
    /\ Len(non_wake_surfaces) = 2
    /\ \E g \in DOMAIN doublet_coefficients : doublet_coefficients[g] # 0
\* update_wakes returned, having found every wake index in range.
WakesUpdated == last_call.op = "update_wakes" /\ last_call.ret = "void"

\* C17: a convecting update_wakes moves every node that a wake had before the
\* call exactly once: the nodes of the newest layer by the trailing-edge
\* displacement, every other node by dt times the velocity at its own
\* position, taken with all wakes as they were before the call; and it appends
\* one layer at the trailing edge.
C17_ConvectFromPreCallState ==
    [][(WakesUpdated' /\ convect_wake) =>
          \A l \in RegisteredLiftingIds :
              LET n == Size(wake_nodes[l])
                  b == BodyOfLifting(l)
              IN  /\ Size(wake_nodes'[l]) = n + NSpanwiseNodes(l)
                  /\ \A i \in 0..(n - 1) :
                        wake_nodes'[l][i] =
                            IF i >= n - NSpanwiseNodes(l)
                            THEN PAdd(wake_nodes[l][i],
                                      Pos(ComputeTrailingEdgeVortexDisplacement(
                                              b, l, i - (n - NSpanwiseNodes(l)), time_step)))
                            ELSE PAdd(wake_nodes[l][i],
                                      Pos(VScale(time_step,
                                                 Velocity(wake_nodes[l][i].v, doublet_coefficients,
                                                          source_coefficients,
                                                          wake_doublet_coefficients, wake_nodes))))
                  /\ \A i \in 0..(NSpanwiseNodes(l) - 1) :
                        wake_nodes'[l][n + i] = Pos(TrailingEdgeNodePosition(l, i))]_vars

\* A convecting update_wakes with a time step moved the wakes of two lifting
\* surfaces, each carrying doublet strength: both have three layers, and the
\* oldest layer of each was carried away from where initialize_wakes put it.
C17_Witness ==
    /\ WakesUpdated
    /\ convect_wake
    /\ time_step > 0
    /\ Len(RegisteredLifting(bodies)) = 2
    /\ \A l \in LiftingSurfaceIds :
            /\ Size(wake_nodes[l]) = 3 * NSpanwiseNodes(l)
            /\ \E k \in DOMAIN wake_doublet_coefficients[l] : wake_doublet_coefficients[l][k] # 0
            /\ wake_nodes[l][0] # PAdd(Pos(TrailingEdgeNodePosition(l, 0)),
                                       Pos(ComputeTrailingEdgeVortexDisplacement(
                                               BodyOfLifting(l), l, 0, time_step)))
\* C18: a static update_wakes sets, for every spanwise node i of every
\* registered lifting surface, wake node n_spanwise_nodes + i to trailing-edge
\* node i and wake node i to that node minus static_wake_length times the
\* normalised (body velocity - freestream); it changes no node count and no
\* doublet coefficient, and a second call right after the first changes no node.
C18_StaticReposition ==
    [][(WakesUpdated' /\ ~convect_wake) =>
          /\ \A l \in RegisteredLiftingIds :
                /\ Size(wake_nodes'[l]) = Size(wake_nodes[l])
                /\ \A i \in 0..(NSpanwiseNodes(l) - 1) :
                      /\ wake_nodes'[l][NSpanwiseNodes(l) + i] = Pos(TrailingEdgeNodePosition(l, i))
                      /\ wake_nodes'[l][i] =
                            PSub(Pos(TrailingEdgeNodePosition(l, i)),
                                 StaticWakeOffset(VSub(BodyVelocity(BodyOfLifting(l)),
                                                       freestream_velocity)))
                /\ \A i \in DOMAIN wake_nodes[l] :
                      i >= 2 * NSpanwiseNodes(l) => wake_nodes'[l][i] = wake_nodes[l][i]
          /\ wake_doublet_coefficients' = wake_doublet_coefficients
          /\ UNCHANGED <<solver_vars, blowing>>
          /\ WakesUpdated => wake_nodes' = wake_nodes]_vars

\* A static update_wakes, made after the freestream was set, left the wake of
\* the moving body pointing along its apparent velocity, with doublet strength
\* on the wake.
C18_Witness ==
    /\ WakesUpdated
    /\ ~convect_wake
    /\ freestream_velocity # Zero3
    /\ "L2" \in RegisteredLiftingIds
    /\ ~wake_nodes["L2"][0].nan
    /\ wake_nodes["L2"][0] = Pos(VSub(TrailingEdgeNodePosition("L2", 0),
                                      VSub(BodyVelocity("B2"), freestream_velocity)))
    /\ \E k \in DOMAIN wake_doublet_coefficients["L2"] : wake_doublet_coefficients["L2"][k] # 0
\* What the strips of the registered wakes that existed before the newest one
\* induce along the normal of panel p of surface s.
PreExistingStripsNormalVelocity(s, p) ==
    LET lifting == RegisteredLifting(bodies)
    IN  SumInt([n \in 0..(Len(lifting) - 1) |->
                   LET l == lifting[n + 1].ls
                   IN  SumInt([k \in 0..(NewestStrip(l) - 1) |->
                                  wake_doublet_coefficients[l][k]
                                  * Dot(WakeVortexRingUnitVelocity(l, s, p, k), PanelNormal(s, p))],
                              NewestStrip(l))],
               Len(lifting))

\* The normal component of the apparent velocity of a panel, less its blowing
\* velocity.
ApparentNormalVelocity(s, p) ==
    Dot(VSub(PanelKinematicVelocity(BodyOfSurface(s), s, p), freestream_velocity),
        PanelNormal(s, p))
    - (IF HasBoundaryLayer(s) THEN blowing[s][p] ELSE 0)

\* C19: the source coefficients the last linear solve of a solve call had as
\* right-hand side are, with convect_wake enabled, the apparent normal
\* velocity less the blowing velocity less what the pre-existing strips
\* (k < wake.n_panels() - n_spanwise_panels) of every registered wake induce,
\* and with convect_wake disabled the same without any wake coefficient; no
\* newest-strip coefficient enters.
C19_SourceReadsOldStripsOnly ==
    (SolveReturned /\ last_call.linear_solves >= 1) =>
        \A g \in DOMAIN last_call.rhs :
            LET s == SurfaceOf(g)
                p == g - OffsetOfSurface(s)
            IN  last_call.rhs[g] =
                    ApparentNormalVelocity(s, p)
                    - (IF convect_wake THEN PreExistingStripsNormalVelocity(s, p) ELSE 0)

\* A convecting solve whose right-hand side held the influence of a
\* pre-existing strip, while the newest strip carried doublet strength too.
C19_Witness ==
    /\ SolveReturnedTrue
    /\ convect_wake
    /\ \E l \in RegisteredLiftingIds :
            /\ NewestStrip(l) > 0
            /\ wake_doublet_coefficients[l][NewestStrip(l)] # 0
    /\ \E g \in DOMAIN last_call.rhs :
            /\ PreExistingStripsNormalVelocity(SurfaceOf(g), g - OffsetOfSurface(SurfaceOf(g))) # 0
            /\ last_call.rhs[g] # ApparentNormalVelocity(SurfaceOf(g), g - OffsetOfSurface(SurfaceOf(g)))
\* What the Kutta wiring has added to A(row, col): A less the doublet influence
\* between the two panels.
WiringPart(row, col) ==
    DoubletInfluenceMatrix(wake_doublet_coefficients)[row][col]
    - DoubletInfluenceCoefficient(SurfaceOf(col), SurfaceOf(row),
                                  row - OffsetOfSurface(SurfaceOf(row)),
                                  col - OffsetOfSurface(SurfaceOf(col)))

\* The newest-strip influences on a row that belong at a column when every
\* lifting surface is taken at its offset of the registration order (offset[n]
\* for the n-th registered lifting surface): added at offset + upper panel,
\* subtracted at offset + lower panel.  at[g] is the surface and the local
\* panel index of global panel g.
WiringAtRegistrationOffsets(row, col, at, offset) ==
    LET lifting == RegisteredLifting(bodies)
    IN  SumInt([n \in 0..(Len(lifting) - 1) |->
                   LET l == lifting[n + 1].ls
                   IN  SumInt([k \in 0..(NSpanwisePanels(l) - 1) |->
                                  LET infl == WakeDoubletInfluenceOn(l, at[row].surface,
                                                                     at[row].panel,
                                                                     NewestStrip(l) + k)
                                  IN  (IF col = offset[n + 1] + TrailingEdgeUpperPanel(l, k)
                                       THEN infl ELSE 0)
                                      - (IF col = offset[n + 1] + TrailingEdgeLowerPanel(l, k)
                                         THEN infl ELSE 0)],
                              NSpanwisePanels(l))],
               Len(lifting))

\* C20: for every order in which bodies were added, the column offset the
\* Kutta wiring of solve uses for a lifting surface L is offset(L) of the
\* registration order; the wiring adds the newest-strip wake influence at
\* column offset(L) + upper_panel(k), subtracts it at offset(L) + lower_panel(k),
\* and touches no other column.
C20_WiringOffsets ==
    SolveReturned =>
        LET wiring == WiringOffsets(bodies, 0)
            lifting == RegisteredLifting(bodies)
            offset == Stored([n \in 1..Len(lifting) |-> OffsetOfSurface(lifting[n].ls)])
            at == Stored([g \in 0..(n_non_wake_panels - 1) |->
                             [surface |-> SurfaceOf(g),
                              panel |-> g - OffsetOfSurface(SurfaceOf(g))]])
            A == DoubletInfluenceMatrix(wake_doublet_coefficients)
        IN  /\ Len(wiring) = Len(lifting)
            /\ \A n \in DOMAIN wiring :
                    wiring[n].ls = lifting[n].ls /\ wiring[n].offset = offset[n]
            /\ \A row, col \in 0..(n_non_wake_panels - 1) :
                    A[row][col] - DoubletInfluenceCoefficient(at[col].surface, at[row].surface,
                                                              at[row].panel, at[col].panel)
                        = WiringAtRegistrationOffsets(row, col, at, offset)

\* A solve of two bodies wired the wake of the lifting surface registered last,
\* behind three other surfaces, into the column of its upper trailing-edge
\* panel, and left the columns of the surface registered first alone.
C20_Witness ==
    /\ SolveReturnedTrue
    /\ Len(non_wake_surfaces) = 4
    /\ LET l == non_wake_surfaces[4]
       IN  /\ l \in LiftingSurfaceIds
           /\ OffsetOfSurface(l) > NPanels(l)
           /\ WiringPart(0, OffsetOfSurface(l) + TrailingEdgeUpperPanel(l, 0)) # 0
           /\ WiringPart(0, 0) = 0
\* Twice the velocity Marcov's formula gives for global panel g before the
\* normal component is taken out: the disturbance velocity at the collocation
\* point, less half the surface gradient of the doublet distribution, less the
\* apparent velocity (doubled, to stay in the integers).
TwiceMarcovVelocity(g) ==
    LET s == SurfaceOf(g)
        p == g - OffsetOfSurface(s)
        disturbance == ComputeDisturbanceVelocity(PanelCollocationPoint(s, p),
                                                  doublet_coefficients, source_coefficients,
                                                  wake_doublet_coefficients, wake_nodes)
        apparent == VSub(PanelKinematicVelocity(BodyOfSurface(s), s, p), freestream_velocity)
    IN  VSub(VSub(VScale(2, disturbance),
                  ScalarFieldGradient(s, doublet_coefficients, OffsetOfSurface(s), p)),
             VScale(2, apparent))

\* C21: in Marcov mode a solve that gets past its linear solve stores for
\* every panel the disturbance velocity at the collocation point less half the
\* surface gradient of the doublet distribution less the apparent velocity,
\* with the normal component projected out.
C21_MarcovSurfaceVelocity ==
    (/\ last_call.op = "solve"
     /\ last_call.ret # "false"
     /\ last_call.exit # "none"
     /\ marcov_surface_velocity
     /\ n_non_wake_panels > 0) =>
        /\ ~ub
        /\ \A g \in DOMAIN surface_velocities :
                LET normal == PanelNormal(SurfaceOf(g), g - OffsetOfSurface(SurfaceOf(g)))
                    twice == TwiceMarcovVelocity(g)
                IN  VScale(2, surface_velocities[g])
                        = VSub(twice, VScale(Dot(twice, normal), normal))

\* What the code does instead: every Marcov solve that gets past its linear
\* solve reads, for every panel, a vector nothing was assigned to, right after
\* the Kutta closure; neither the disturbance velocity nor the gradient enters
\* what it stores.
C21_ReadsUninitialised ==
    (/\ last_call.op = "solve"
     /\ last_call.ret # "false"
     /\ last_call.exit # "none"
     /\ marcov_surface_velocity
     /\ n_non_wake_panels > 0) =>
        /\ ub
        /\ last_call.exit = "uninitialised_read"
        /\ last_call.trace[Len(last_call.trace)] = "surface_velocities"
        /\ last_call.trace[Len(last_call.trace) - 1] = "kutta"

\* The node and panel counts of what a writer.write call of log was given.
WrittenNNodes(w) ==
    IF w.surface \in SurfaceIds THEN NNodes(w.surface)
    ELSE WakeNNodes(wake_nodes, CHOOSE l \in LiftingSurfaceIds : WakeId(l) = w.surface)

WrittenNPanels(w) ==
    IF w.surface \in SurfaceIds THEN NPanels(w.surface)
    ELSE WakeNPanels(wake_doublet_coefficients,
                     CHOOSE l \in LiftingSurfaceIds : WakeId(l) = w.surface)

RECURSIVE SumWritten(_, _, _)
SumWritten(writes, k, nodes) ==
    IF k = 0 THEN 0
    ELSE SumWritten(writes, k - 1, nodes)
            + (IF nodes THEN WrittenNNodes(writes[k]) ELSE WrittenNPanels(writes[k]))

\* C22: every writer.write call of a log call receives as node offset the sum
\* of n_nodes and as panel offset the sum of n_panels of all surfaces and wakes
\* written before it in that call, and the coefficient slices of a surface are
\* the entries [offset(S), offset(S) + n_panels(S)) of the global vectors.
C22_LogOffsets ==
    last_call.op = "log" =>
        \A k \in DOMAIN last_call.writes :
            LET w == last_call.writes[k]
            IN  /\ w.node_offset = SumWritten(last_call.writes, k - 1, TRUE)
                /\ w.panel_offset = SumWritten(last_call.writes, k - 1, FALSE)
                /\ w.surface \in SurfaceIds =>
                        \A i \in 0..(NPanels(w.surface) - 1) :
                            /\ w.doublets[i] = doublet_coefficients[OffsetOfSurface(w.surface) + i]
                            /\ w.sources[i] = source_coefficients[OffsetOfSurface(w.surface) + i]
                            /\ w.pressures[i] = pressure_coefficients[OffsetOfSurface(w.surface) + i]

\* What the code does: panel offsets and slices are as C22 states and so are
\* the node offsets of the surfaces, but every wake is written with node
\* offset 0.
C22_WakeNodeOffsetZero ==
    last_call.op = "log" =>
        \A k \in DOMAIN last_call.writes :
            LET w == last_call.writes[k]
            IN  /\ w.panel_offset = SumWritten(last_call.writes, k - 1, FALSE)
                /\ w.node_offset = IF w.surface \in SurfaceIds
                                   THEN SumWritten(last_call.writes, k - 1, TRUE)
                                   ELSE 0
                /\ w.surface \in SurfaceIds =>
                        \A i \in 0..(NPanels(w.surface) - 1) :
                            /\ w.doublets[i] = doublet_coefficients[OffsetOfSurface(w.surface) + i]
                            /\ w.sources[i] = source_coefficients[OffsetOfSurface(w.surface) + i]
                            /\ w.pressures[i] = pressure_coefficients[OffsetOfSurface(w.surface) + i]
\* ---------------------------------------------------- the parallel regions
\* One element of an array (or one scalar, or one thread's copy of a private
\* scalar) that a loop iteration reads or writes.
Element(array, row, col) == [array |-> array, row |-> row, col |-> col]

Whole(name, v) == {Element(name, g, 0) : g \in DOMAIN v}

\* The position of a registered lifting surface among the lifting surfaces.
WakeNo(l) ==
    CHOOSE k \in DOMAIN RegisteredLifting(bodies) : RegisteredLifting(bodies)[k].ls = l

WakeCoefficientElements(newest) ==
    UNION {{Element("wake.doublet_coefficients", WakeNo(l), k) :
                k \in 0..(WakeNPanels(wake_doublet_coefficients, l)
                            - (IF newest THEN 0 ELSE NSpanwisePanels(l)) - 1)} :
            l \in RegisteredLiftingIds}

WakeNodeElements ==
    UNION {{Element("wake.nodes", WakeNo(l), k) : k \in DOMAIN wake_nodes[l]} :
                l \in RegisteredLiftingIds}

\* What Solver::velocity and Solver::velocity_potential read.
FieldElements ==
    Whole("doublet_coefficients", doublet_coefficients)
        \cup Whole("source_coefficients", source_coefficients)
        \cup WakeCoefficientElements(TRUE) \cup WakeNodeElements

\* The omp parallel regions solve and update_wakes run in the current state:
\* one per registered surface (or pair of surfaces, or wake) and loop.
ParallelRegions ==
    LET registered == {non_wake_surfaces[k] : k \in DOMAIN non_wake_surfaces}
        region(name, s, c) == [region |-> name, surface |-> s, column |-> c]
    IN  (IF WakesReady
         THEN {region(name, s, "none") :
                    name \in {"sources", "kutta", "surface_velocities", "pressure"},
                    s \in registered}
                \cup {region("influence", s, c) : s \in registered, c \in registered}
         ELSE {})
        \cup (IF convect_wake /\ WakesUpdatable
              THEN {region(name, l, "none") :
                        name \in {"wake_velocities", "wake_convection"},
                        l \in RegisteredLiftingIds}
              ELSE {})

\* The iterations of the omp for loop of a region.
Iterations(r) ==
    CASE r.region = "wake_velocities" -> 0..(WakeNNodes(wake_nodes, r.surface) - 1)
      [] r.region = "wake_convection" ->
            0..(WakeNNodes(wake_nodes, r.surface) - NSpanwiseNodes(r.surface) - 1)
      [] OTHER -> 0..(NPanels(r.surface) - 1)

\* The variables declared outside a parallel construct and assigned inside
\* its loop.
LoopVariables(r) ==
    CASE r.region = "influence" -> {"i", "j"}
      [] r.region = "kutta" -> {"i", "bi", "si", "lsi", "lifting_surface_offset", "j",
                                "wake_panel_offset", "pa", "pb", "body", "d"}
      [] r.region = "pressure" -> {"i", "dphidt"}
      [] OTHER -> {"i"}

\* A region's loop variable is private to each thread, and private the case
\* where "j" is left out of the private clause of the influence loop.
PrivateVariablesWithoutJ(r) ==
    {"i"} \cup (CASE r.region = "kutta" -> {"bi", "si", "lsi", "lifting_surface_offset", "j",
                                            "wake_panel_offset", "pa", "pb", "body", "d"}
                  [] r.region = "pressure" -> {"dphidt"}
                  [] OTHER -> {})

\* The omp for loop variable is private to each thread, and so are the
\* variables of the region's private clause.
PrivateVariables(r) ==
    {"i"} \cup (CASE r.region = "influence" -> {"j"}
                  [] r.region = "kutta" -> {"bi", "si", "lsi", "lifting_surface_offset", "j",
                                            "wake_panel_offset", "pa", "pb", "body", "d"}
                  [] r.region = "pressure" -> {"dphidt"}
                  [] OTHER -> {})

\* Iteration i's copy of the loop variables: its own where the variable is
\* private, the one shared copy otherwise.
Scalars(r, i) ==
    {Element(name, IF name \in PrivateVariables(r) THEN i ELSE -1, 0) : name \in LoopVariables(r)}

\* The matrix entries of row offset_row + i the Kutta wiring adds to.
KuttaElements(r, i) ==
    UNION {{Element("A", OffsetOfSurface(r.surface) + i, OffsetOfSurface(l) + pab) :
                pab \in UNION {{TrailingEdgeUpperPanel(l, j), TrailingEdgeLowerPanel(l, j)} :
                                    j \in 0..(NSpanwisePanels(l) - 1)}} :
            l \in RegisteredLiftingIds}

\* What iteration i of a region writes.
Writes(r, i) ==
    LET g == IF r.surface \in SurfaceIds THEN OffsetOfSurface(r.surface) + i ELSE i
    IN  Scalars(r, i) \cup
        CASE r.region = "sources" -> {Element("source_coefficients", g, 0)}
          [] r.region = "influence" ->
                {Element(name, g, OffsetOfSurface(r.column) + j) :
                    name \in {"source_influence_coefficients", "A"},
                    j \in 0..(NPanels(r.column) - 1)}
          [] r.region = "kutta" -> KuttaElements(r, i)
          [] r.region = "surface_velocities" -> {Element("surface_velocities", g, 0)}
          [] r.region = "pressure" -> {Element("surface_velocity_potentials", g, 0),
                                       Element("pressure_coefficients", g, 0)}
          [] r.region = "wake_velocities" -> {Element("local_wake_velocities", i, 0)}
          [] r.region = "wake_convection" -> {Element("wake.nodes", WakeNo(r.surface), i)}

\* What iteration i of a region reads.
Reads(r, i) ==
    LET offset == IF r.surface \in SurfaceIds THEN OffsetOfSurface(r.surface) ELSE 0
        g == offset + i
    IN  Scalars(r, i) \cup
        CASE r.region = "sources" ->
                {Element("boundary_layer.blowing_velocity", g, 0)}
                    \cup (IF convect_wake
                          THEN WakeCoefficientElements(FALSE) \cup WakeNodeElements
                          ELSE {})
          [] r.region = "influence" -> {}
          [] r.region = "kutta" -> KuttaElements(r, i) \cup WakeNodeElements
          [] r.region = "surface_velocities" ->
                {Element("doublet_coefficients", offset + p, 0) :
                        p \in 0..(NPanels(r.surface) - 1)}
                    \cup (IF marcov_surface_velocity THEN FieldElements ELSE {})
          [] r.region = "pressure" ->
                {Element("surface_velocities", g, 0)}
                    \cup (IF marcov_surface_velocity THEN FieldElements
                          ELSE {Element("doublet_coefficients", g, 0)})
                    \cup (IF unsteady_bernoulli /\ time_step > 0
                          THEN {Element("surface_velocity_potentials", g, 0),
                                Element("previous_surface_velocity_potentials", g, 0)}
                          ELSE {})
          [] r.region = "wake_velocities" -> FieldElements
          [] r.region = "wake_convection" -> {Element("wake.nodes", WakeNo(r.surface), i),
                                              Element("local_wake_velocities", i, 0)}

\* Where the driver may go on to call solve or update_wakes: no two
\* iterations of a region write the same element and none reads an element
\* another one writes.
RaceFree ==
    Running =>
        \A r \in ParallelRegions :
            LET written == Stored([i \in Iterations(r) |-> Writes(r, i)])
                read == Stored([i \in Iterations(r) |-> Reads(r, i)])
            IN  \A i, j \in Iterations(r) :
                    i # j => written[i] \cap (written[j] \cup read[j]) = {}

\* C23: in each parallel region of solve and update_wakes no two loop
\* iterations write the same array element and no iteration reads an element
\* that another iteration of the region writes, so the state after the region
\* does not depend on the thread interleaving.
C23_NoDataRace == RaceFree

\* Wakes are being convected, two bodies are registered and the wake of L1 has
\* two rows of nodes to convect: every region has several iterations.
C23_Witness ==
    /\ convect_wake
    /\ last_call.op = "solve"
    /\ last_call.ret = "true"
    /\ Size(bodies) = 2
    /\ WakeNNodes(wake_nodes, "L1") >= 3 * NSpanwiseNodes("L1")
    /\ \E r \in ParallelRegions : r.region = "wake_convection" /\ Cardinality(Iterations(r)) > 1
    /\ \E r \in ParallelRegions : r.region = "kutta" /\ Cardinality(Iterations(r)) > 1
\* C24, amended: previous_surface_velocity_potentials changes only through
\* add_body, which zeroes it, through a solve that returns true and was asked to
\* propagate, and through a call of propagate by the driver, both of which set
\* it to the surface_velocity_potentials last computed;
\* a solve that does not propagate and a solve that fails leave it as it was;
\* and the time derivative in the pressure of a step is taken against the
\* snapshot held when the step began, not against the step's own potentials.
C24_SnapshotOrPropagate ==
    [][/\ previous_surface_velocity_potentials' # previous_surface_velocity_potentials =>
            \/ /\ last_call'.op = "add_body"
               /\ AllZero(previous_surface_velocity_potentials')
               /\ Size(previous_surface_velocity_potentials') = n_non_wake_panels'
            \/ /\ last_call'.op = "solve"
               /\ last_call'.ret = "true"
               /\ \E i \in DOMAIN last_call'.trace : last_call'.trace[i] = "propagate"
            \/ last_call'.op = "propagate"
       /\ last_call'.op = "propagate" =>
            /\ previous_surface_velocity_potentials' = surface_velocity_potentials
            /\ surface_velocity_potentials' = surface_velocity_potentials
       /\ last_call'.op = "solve" =>
            IF /\ last_call'.ret = "true"
               /\ \E i \in DOMAIN last_call'.trace : last_call'.trace[i] = "propagate"
            THEN previous_surface_velocity_potentials' = surface_velocity_potentials'
            ELSE previous_surface_velocity_potentials' = previous_surface_velocity_potentials
       /\ (last_call'.op = "solve" /\ last_call'.ret = "true"
                /\ unsteady_bernoulli /\ time_step > 0) =>
            \A g \in DOMAIN pressure_coefficients' :
                LET v_ref_squared ==
                        SquaredNorm(VSub(BodyVelocity(BodyOfSurface(SurfaceOf(g))),
                                         freestream_velocity))
                    difference == surface_velocity_potentials'[g]
                                    - previous_surface_velocity_potentials[g]
                IN  pressure_coefficients'[g]
                        = Frac(time_step * v_ref_squared
                                 - (SquaredNorm(surface_velocities'[g]) * time_step
                                        + 2 * difference),
                               time_step * v_ref_squared)]_vars


\* C24 as stated: previous_surface_velocity_potentials changes only through add_body,
\* which zeroes it, and through a solve that returns true and was asked to
\* propagate, which sets it to the surface_velocity_potentials just computed;
\* a solve that does not propagate and a solve that fails leave it as it was;
\* and the time derivative in the pressure of a step is taken against the
\* snapshot held when the step began, not against the step's own potentials.
C24_Snapshot ==
    [][/\ previous_surface_velocity_potentials' # previous_surface_velocity_potentials =>
            \/ /\ last_call'.op = "add_body"
               /\ AllZero(previous_surface_velocity_potentials')
               /\ Size(previous_surface_velocity_potentials') = n_non_wake_panels'
            \/ /\ last_call'.op = "solve"
               /\ last_call'.ret = "true"
               /\ \E i \in DOMAIN last_call'.trace : last_call'.trace[i] = "propagate"
       /\ last_call'.op = "solve" =>
            IF /\ last_call'.ret = "true"
               /\ \E i \in DOMAIN last_call'.trace : last_call'.trace[i] = "propagate"
            THEN previous_surface_velocity_potentials' = surface_velocity_potentials'
            ELSE previous_surface_velocity_potentials' = previous_surface_velocity_potentials
       /\ (last_call'.op = "solve" /\ last_call'.ret = "true"
                /\ unsteady_bernoulli /\ time_step > 0) =>
            \A g \in DOMAIN pressure_coefficients' :
                LET v_ref_squared ==
                        SquaredNorm(VSub(BodyVelocity(BodyOfSurface(SurfaceOf(g))),
                                         freestream_velocity))
                    difference == surface_velocity_potentials'[g]
                                    - previous_surface_velocity_potentials[g]
                IN  pressure_coefficients'[g]
                        = Frac(time_step * v_ref_squared
                                 - (SquaredNorm(surface_velocities'[g]) * time_step
                                        + 2 * difference),
                               time_step * v_ref_squared)]_vars

\* The driver called propagate after an unsteady solve with dt > 0 whose
\* pressure was computed against another snapshot: the snapshot now holds the nonzero potentials of that solve, which
\* the pressure of the solve was not computed against.
C24_Witness ==
    /\ last_call.op = "propagate"
    /\ unsteady_bernoulli
    /\ time_step > 0
    /\ previous_surface_velocity_potentials = surface_velocity_potentials
    /\ \E g \in DOMAIN surface_velocity_potentials :
            /\ previous_surface_velocity_potentials[g] # 0
            /\ pressure_coefficients[g]
                    # Frac(SquaredNorm(VSub(BodyVelocity(BodyOfSurface(SurfaceOf(g))),
                                            freestream_velocity))
                             - SquaredNorm(surface_velocities[g]),
                           SquaredNorm(VSub(BodyVelocity(BodyOfSurface(SurfaceOf(g))),
                                            freestream_velocity)))
\* The wake panel indices wake.n_panels() - n_spanwise_panels + k that the
\* matrix wiring and the Kutta closure of solve use for lifting surface l.
NewestStripIndices(l) ==
    {WakeNPanels(wake_doublet_coefficients, l) - NSpanwisePanels(l) + k :
        k \in 0..(NSpanwisePanels(l) - 1)}

\* The wake node indices update_wakes writes for lifting surface l.
UpdateWakesNodeIndices(l) ==
    IF convect_wake
    THEN {WakeNNodes(wake_nodes, l) - NSpanwiseNodes(l) + i : i \in 0..(NSpanwiseNodes(l) - 1)}
            \cup 0..(WakeNNodes(wake_nodes, l) - NSpanwiseNodes(l) - 1)
    ELSE {NSpanwiseNodes(l) + i : i \in 0..(NSpanwiseNodes(l) - 1)}
            \cup 0..(NSpanwiseNodes(l) - 1)

\* Every wake index solve and update_wakes would use is in range.
IndicesInRange ==
    \A l \in RegisteredLiftingIds :
        /\ NewestStripIndices(l) \subseteq 0..(WakeNPanels(wake_doublet_coefficients, l) - 1)
        /\ UpdateWakesNodeIndices(l) \subseteq 0..(WakeNNodes(wake_nodes, l) - 1)

\* A call used a wake index out of range (the other fault the model records is
\* the read of an uninitialised vector).
IndexOutOfRange == ub /\ last_call.exit # "uninitialised_read"

\* C25: initialize_wakes called after the add_body calls leaves every wake
\* index in range, and every later solve and update_wakes call keeps it so
\* (newest-strip panel indices in [0, wake.n_panels()), node indices written by
\* update_wakes in [0, wake.n_nodes())) and uses no index out of range; a body
\* added leaves the newest-strip index of its wake negative, and so does a
\* solve called while a registered wake has not been initialised.
C25_WakeIndicesInRange ==
    /\ [][last_call'.op = "initialize_wakes" => IndicesInRange']_vars
    /\ [][(IndicesInRange /\ ~ub /\ last_call'.op # "add_body") =>
                (IndicesInRange' /\ ~IndexOutOfRange')]_vars
    /\ [][last_call'.op = "add_body" =>
                \E l \in RegisteredLiftingIds' :
                    \A index \in NewestStripIndices(l)' : index < 0]_vars
    /\ [][(last_call'.op = "solve" /\ ~IndicesInRange) =>
                /\ ub'
                /\ \E l \in RegisteredLiftingIds :
                        \A index \in NewestStripIndices(l) : index < 0]_vars

\* Both bodies were added, initialize_wakes was called, and solve and
\* update_wakes calls have grown the wake of L1 to MaxLayers rows of nodes.
C25_Witness ==
    /\ ~ub
    /\ convect_wake
    /\ Size(bodies) = 2
    /\ last_call.op = "solve"
    /\ last_call.ret = "true"
    /\ WakeNNodes(wake_nodes, "L1") = MaxLayers * NSpanwiseNodes("L1")
    /\ WakeNPanels(wake_doublet_coefficients, "L2") = (MaxLayers - 1) * NSpanwisePanels("L2")
    /\ IndicesInRange
====
